---- MODULE Spec2Model ----
(***************************************************************************)
(* CGPA calculator (AbhiramVSA/cgpa-calculator-vit-ap).                    *)
(*                                                                         *)
(* The module models the grade-point aggregator, the base64url/gzip        *)
(* transport codec, the decode-parse-validate pipeline of /api/calculate   *)
(* (fed by /api/gpa) and the interactive report.  Text is modelled at      *)
(* character level: a JavaScript string is a sequence of one-character     *)
(* strings, a Buffer is a sequence of byte values 0..255.                  *)
(*                                                                         *)
(* Numbers: a JavaScript number that is a credit value is an integer count *)
(* of tenths (4 is 40, 3.5 is 35); number literals of the modelled texts   *)
(* carry at most one fractional digit.  A quotient is an exact fraction    *)
(* [n, d] in lowest terms; d = 0 stands for the non-finite results of a    *)
(* division by zero (NaN is [0, 0]).                                       *)
(***************************************************************************)
EXTENDS Integers, Sequences, FiniteSets, TLC

VARIABLES
  aggPc, aggFn, aggIn, aggOut,
  codecPc, codecIn, codecStd, codecEnc, codecVia, codecPadded, codecOut,
  pipePc, gpaBody, gpaRes, calcReq, calcRes, calcTrace,
  reportPc, reportVariant, originalData, currentData, shown,
  groupPc, groupFn, groupIn, groupOut,
  postPc, postReq, postGet, postRes,
  appPc, appReq, appRes,
  textPc, textFn, textIn, textOut,
  heapPc, heapVariant, heap, initialRef, dataRef, decoded,
  manualCourses, manualCgpa, currentCourse, clock, isLoading, importSuccess, importError, importedCgpa, pending, started, lastData

aggVars == <<aggPc, aggFn, aggIn, aggOut>>
codecVars == <<codecPc, codecIn, codecStd, codecEnc, codecVia, codecPadded, codecOut>>
pipeVars == <<pipePc, gpaBody, gpaRes, calcReq, calcRes, calcTrace>>
reportVars == <<reportPc, reportVariant, originalData, currentData, shown>>
groupVars == <<groupPc, groupFn, groupIn, groupOut>>
postVars == <<postPc, postReq, postGet, postRes>>
appVars == <<appPc, appReq, appRes>>
textVars == <<textPc, textFn, textIn, textOut>>
heapVars == <<heapPc, heapVariant, heap, initialRef, dataRef, decoded>>
pageVars == <<manualCourses, manualCgpa, currentCourse, clock, isLoading, importSuccess, importError, importedCgpa, pending, started, lastData>>
vars == <<aggVars, codecVars, pipeVars, reportVars, groupVars, postVars,
          appVars, textVars, heapVars, pageVars>>

\* What each component leaves alone: the variables of the other components.
aggRest == <<codecVars, pipeVars, reportVars, groupVars, postVars, appVars,
             textVars, heapVars, pageVars>>
codecRest == <<aggVars, pipeVars, reportVars, groupVars, postVars, appVars,
               textVars, heapVars, pageVars>>
pipeRest == <<aggVars, codecVars, reportVars, groupVars, postVars, appVars,
              textVars, heapVars, pageVars>>
reportRest == <<aggVars, codecVars, pipeVars, groupVars, postVars, appVars,
                textVars, heapVars, pageVars>>
groupRest == <<aggVars, codecVars, pipeVars, reportVars, postVars, appVars,
               textVars, heapVars, pageVars>>
postRest == <<aggVars, codecVars, pipeVars, reportVars, groupVars, appVars,
              textVars, heapVars, pageVars>>
appRest == <<aggVars, codecVars, pipeVars, reportVars, groupVars, postVars,
             textVars, heapVars, pageVars>>
textRest == <<aggVars, codecVars, pipeVars, reportVars, groupVars, postVars,
              appVars, heapVars, pageVars>>
heapRest == <<aggVars, codecVars, pipeVars, reportVars, groupVars, postVars,
              appVars, textVars, pageVars>>
pageRest == <<aggVars, codecVars, pipeVars, reportVars, groupVars, postVars,
              appVars, textVars, heapVars>>

(***************************************************************************)
(* Bounds of the model.                                                    *)
(***************************************************************************)
MaxAggCourses == 2
MaxBytes == 3
MaxDocCourses == 2

(***************************************************************************)
(* Arithmetic helpers.                                                     *)
(***************************************************************************)
Abs(x) == IF x < 0 THEN -x ELSE x

RECURSIVE Gcd(_, _)
Gcd(a, b) == IF b = 0 THEN a ELSE Gcd(b, a % b)

NaN == [n |-> 0, d |-> 0]
Zero == [n |-> 0, d |-> 1]

\* JavaScript's a / b on exact values: 0/0 is NaN, x/0 is +-Infinity.
Quot(a, b) ==
  IF b = 0 THEN [n |-> (IF a > 0 THEN 1 ELSE IF a < 0 THEN -1 ELSE 0), d |-> 0]
  ELSE LET g == Gcd(Abs(a), Abs(b))
           s == IF b < 0 THEN -1 ELSE 1
       IN [n |-> (s * a) \div g, d |-> (s * b) \div g]

SeqsUpTo(S, n) == UNION {[1..k -> S] : k \in 0..n}

\* Body applied to the value of v: v is evaluated once, like a const
\* declaration followed by the statements that use it.
Bind(v, Body(_)) == CHOOSE out \in {Body(x) : x \in {v}} : TRUE

\* The least element of a non-empty set of integers.
Min(S) == CHOOSE x \in S : \A y \in S : x <= y

\* Array.prototype.reduce with (sum, x) => sum + x from 0; the sum is taken
\* by halves, which keeps the evaluation shallow on long sequences.
RECURSIVE SumSeq(_)
SumSeq(s) ==
  IF Len(s) = 0 THEN 0
  ELSE IF Len(s) = 1 THEN s[1]
  ELSE LET m == Len(s) \div 2
       IN SumSeq(SubSeq(s, 1, m)) + SumSeq(SubSeq(s, m + 1, Len(s)))

(***************************************************************************)
(* Characters and strings.                                                 *)
(***************************************************************************)
Str1(c) == <<c>>

G_S == <<"S">>
G_A == <<"A">>
G_B == <<"B">>
G_C == <<"C">>
G_D == <<"D">>
G_E == <<"E">>
G_F == <<"F">>
G_P == <<"P">>

\* The keys of the gradePoints table.
GradeKeys == {G_S, G_A, G_B, G_C, G_D, G_E, G_F, G_P}

\* gradePoints[g]; undefined (-1 here) for a key the table does not own.
gradePoints(g) ==
  CASE g = G_S -> 10
    [] g = G_A -> 9
    [] g = G_B -> 8
    [] g = G_C -> 7
    [] g = G_D -> 6
    [] g = G_E -> 5
    [] g = G_F -> 0
    [] g = G_P -> 0
    [] OTHER -> -1

\* gradePoints[grade] || 0
PointsOrZero(g) == IF gradePoints(g) > 0 THEN gradePoints(g) ELSE 0

NotP(courses) == SelectSeq(courses, LAMBDA c : c.grade # G_P)

TotalGradePoints(courses) ==
  SumSeq([i \in 1..Len(courses) |-> PointsOrZero(courses[i].grade) * courses[i].credits])

TotalCredits(courses) ==
  SumSeq([i \in 1..Len(courses) |-> courses[i].credits])

\* A mutation of calculateCGPA: the P records are not filtered out.
calculateCGPA_KeepP(courses) ==
  IF Len(courses) = 0 THEN Zero
  ELSE IF TotalCredits(courses) > 0
       THEN Quot(TotalGradePoints(courses), TotalCredits(courses))
       ELSE Zero

\* calculateCGPA of /api/calculate.
calculateCGPA(courses) ==
  LET validCourses == NotP(courses)
  IN IF Len(validCourses) = 0 THEN Zero
     ELSE IF TotalCredits(validCourses) > 0
          THEN Quot(TotalGradePoints(validCourses), TotalCredits(validCourses))
          ELSE Zero

\* calculateSemesterGPA of /api/app (credits already numbers here).
calculateSemesterGPA_app(courses) ==
  LET validCourses == NotP(courses)
  IN IF Len(validCourses) = 0 THEN Zero
     ELSE IF TotalCredits(validCourses) > 0
          THEN Quot(TotalGradePoints(validCourses), TotalCredits(validCourses))
          ELSE Zero

(***************************************************************************)
(* Binary transport codec: gzip, base64, base64url.                        *)
(***************************************************************************)
B64 ==
  <<"A","B","C","D","E","F","G","H","I","J","K","L","M","N","O","P",
    "Q","R","S","T","U","V","W","X","Y","Z","a","b","c","d","e","f",
    "g","h","i","j","k","l","m","n","o","p","q","r","s","t","u","v",
    "w","x","y","z","0","1","2","3","4","5","6","7","8","9","+","/">>

\* The sextet of a base64 character (both alphabets, as Node decodes them),
\* 64 for a character that is none.
Unbase64(c) ==
  IF c = "-" THEN 62
  ELSE IF c = "_" THEN 63
  ELSE IF \E i \in 1..64 : B64[i] = c
       THEN (CHOOSE i \in 1..64 : B64[i] = c) - 1
       ELSE 64

\* The four base64 characters of a group of one to three bytes.
Base64Group(bs) ==
  IF Len(bs) = 1 THEN
    <<B64[bs[1] \div 4 + 1], B64[(bs[1] % 4) * 16 + 1], "=", "=">>
  ELSE IF Len(bs) = 2 THEN
    <<B64[bs[1] \div 4 + 1],
      B64[(bs[1] % 4) * 16 + bs[2] \div 16 + 1],
      B64[(bs[2] % 16) * 4 + 1], "=">>
  ELSE
    <<B64[bs[1] \div 4 + 1],
      B64[(bs[1] % 4) * 16 + bs[2] \div 16 + 1],
      B64[(bs[2] % 16) * 4 + bs[3] \div 64 + 1],
      B64[(bs[3] % 64) + 1] >>

\* buffer.toString("base64"): the groups of three bytes, in order.
ToBase64(bs) ==
  LET n == Len(bs)
      Group(g) == Base64Group(SubSeq(bs, 3 * g - 2, IF 3 * g < n THEN 3 * g ELSE n))
  IN [k \in 1..(4 * ((n + 2) \div 3)) |-> Group((k + 3) \div 4)[((k - 1) % 4) + 1]]

\* The part of a string before its first "=".
UpToPad(s) ==
  LET pads == {i \in 1..Len(s) : s[i] = "="}
  IN IF pads = {} THEN s ELSE SubSeq(s, 1, Min(pads) - 1)

\* The bytes of a group of two to four sextets.
SextetGroup(x) ==
  IF Len(x) = 2 THEN <<x[1] * 4 + x[2] \div 16>>
  ELSE IF Len(x) = 3 THEN
    <<x[1] * 4 + x[2] \div 16, (x[2] % 16) * 16 + x[3] \div 4>>
  ELSE
    <<x[1] * 4 + x[2] \div 16, (x[2] % 16) * 16 + x[3] \div 4,
      (x[3] % 4) * 64 + x[4] >>

\* The bytes of a run of sextets: three per full group of four, and a last
\* group of two or three gives one or two (a lone sextet gives none).
SextetsToBytes(x) ==
  LET n == Len(x)
      r == n % 4
      count == 3 * (n \div 4) + (IF r >= 2 THEN r - 1 ELSE 0)
      Group(g) == SextetGroup(SubSeq(x, 4 * g - 3, IF 4 * g < n THEN 4 * g ELSE n))
  IN [k \in 1..count |-> Group((k + 2) \div 3)[((k - 1) % 3) + 1]]

\* Buffer.from(str, "base64"): never throws; a character outside the alphabets
\* is skipped and decoding stops at the first "=".
FromBase64(str) ==
  LET legal == SelectSeq(UpToPad(str), LAMBDA c : Unbase64(c) < 64)
  IN SextetsToBytes([i \in 1..Len(legal) |-> Unbase64(legal[i])])

\* str.replace(/a/g, b) for one-character a and b.
ReplaceAll(str, a, b) == [i \in 1..Len(str) |-> IF str[i] = a THEN b ELSE str[i]]

\* str.replace(/=/g, "")
StripPad(str) == SelectSeq(str, LAMBDA c : c # "=")

Repeat(c, k) == [i \in 1..k |-> c]

\* A mutation of base64UrlEncode: the two substitutions are swapped.
base64UrlEncode_Swapped(buffer) ==
  StripPad(ReplaceAll(ReplaceAll(ReplaceAll(ToBase64(buffer), "+", "#"), "/", "-"), "#", "_"))

\* base64UrlEncode of /api/gpa.
base64UrlEncode(buffer) ==
  StripPad(ReplaceAll(ReplaceAll(ToBase64(buffer), "+", "-"), "/", "_"))

\* The string base64UrlDecode of /api/calculate hands to Buffer.from.
base64UrlPadded(str) ==
  LET padded == str \o Repeat("=", (4 - (Len(str) % 4)) % 4)
  IN ReplaceAll(ReplaceAll(padded, "-", "+"), "_", "/")

base64UrlDecode(str) == FromBase64(base64UrlPadded(str))

\* The string decodePayload hands to Buffer.from.
decodePayloadPadded(encoded) ==
  LET b64 == ReplaceAll(ReplaceAll(encoded, "-", "+"), "_", "/")
      pad == Len(b64) % 4
  IN IF pad # 0 THEN b64 \o Repeat("=", 4 - pad) ELSE b64

\* gzip as a container: a three-byte header (magic 1f 8b, method 8), the
\* payload, and a trailer holding a checksum and the length (each one byte).
GzipHeader == <<31, 139, 8>>

Checksum(bs) == SumSeq(bs) % 256

gzipSync(bs) == GzipHeader \o bs \o <<Checksum(bs), Len(bs) % 256>>

\* gunzipSync: [ok, bytes]; ok = FALSE stands for the exception it throws.
gunzipSync(bs) ==
  IF Len(bs) < 5 \/ SubSeq(bs, 1, 3) # GzipHeader
  THEN [ok |-> FALSE, bytes |-> <<>>]
  ELSE LET body == SubSeq(bs, 4, Len(bs) - 2)
       IN IF bs[Len(bs) - 1] = Checksum(body) /\ bs[Len(bs)] = Len(body) % 256
          THEN [ok |-> TRUE, bytes |-> body]
          ELSE [ok |-> FALSE, bytes |-> <<>>]

(***************************************************************************)
(* Text: characters, UTF-8, number literals.                               *)
(***************************************************************************)
\* The printable ASCII characters, code 32 to 126, in code order (the grave
\* accent, code 96, under a name: it cannot be written in a string here).
Ascii ==
  <<" ","!","\"","#","$","%","&","'","(",")","*","+",",","-",".","/",
    "0","1","2","3","4","5","6","7","8","9",":",";","<","=",">","?",
    "@","A","B","C","D","E","F","G","H","I","J","K","L","M","N","O",
    "P","Q","R","S","T","U","V","W","X","Y","Z","[","\\","]","^","_",
    "GRAVE","a","b","c","d","e","f","g","h","i","j","k","l","m","n","o",
    "p","q","r","s","t","u","v","w","x","y","z","{","|","}","~">>

AsciiChars == {Ascii[i] : i \in 1..Len(Ascii)}

CharCode == [c \in AsciiChars |-> 31 + (CHOOSE i \in 1..Len(Ascii) : Ascii[i] = c)]

\* What a byte that is no printable ASCII character decodes to (U+FFFD).
ReplacementChar == "U+FFFD"

\* Buffer.from(text, "utf-8") and buffer.toString("utf-8").
Utf8Encode(text) == [i \in 1..Len(text) |-> CharCode[text[i]]]

Utf8Decode(bytes) ==
  [i \in 1..Len(bytes) |->
     IF bytes[i] >= 32 /\ bytes[i] <= 126 THEN Ascii[bytes[i] - 31] ELSE ReplacementChar]

Digits == <<"0","1","2","3","4","5","6","7","8","9">>

IsDigit(c) == \E i \in 1..10 : Digits[i] = c

DigitVal(c) == (CHOOSE i \in 1..10 : Digits[i] = c) - 1

UpperLetters == {Ascii[i] : i \in 34..59}
LowerLetters == {Ascii[i] : i \in 66..91}

\* [A-Za-z_] and [A-Za-z0-9_]
IsIdentStart(c) == c \in UpperLetters \/ c \in LowerLetters \/ c = "_"
IsIdentChar(c) == IsIdentStart(c) \/ IsDigit(c)

\* \s
IsSpace(c) == c = " "

\* String.prototype.trim
RECURSIVE TrimLeft(_)
TrimLeft(s) == IF s # <<>> /\ IsSpace(Head(s)) THEN TrimLeft(Tail(s)) ELSE s

RECURSIVE TrimRight(_)
TrimRight(s) ==
  IF s # <<>> /\ IsSpace(s[Len(s)]) THEN TrimRight(SubSeq(s, 1, Len(s) - 1)) ELSE s

Trim(s) == TrimRight(TrimLeft(s))

\* The length of the longest prefix of s, from position p on, made of digits.
DigitRun(s, p) ==
  LET stops == {q \in p..Len(s) : ~IsDigit(s[q])}
  IN IF stops = {} THEN (IF p > Len(s) THEN 0 ELSE Len(s) + 1 - p) ELSE Min(stops) - p

\* The value of the decimal digits s[p .. p + k - 1].
RECURSIVE DigitsValue(_, _, _)
DigitsValue(s, p, k) ==
  IF k = 0 THEN 0 ELSE DigitsValue(s, p, k - 1) * 10 + DigitVal(s[p + k - 1])

\* The decimal digits of a natural number.
RECURSIVE NatDigits(_)
NatDigits(k) ==
  IF k < 10 THEN <<Digits[k + 1]>> ELSE NatDigits(k \div 10) \o <<Digits[(k % 10) + 1]>>

\* Number.prototype.toString of a number held in tenths.
NumberToString(n) ==
  LET a == Abs(n)
      sign == IF n < 0 THEN <<"-">> ELSE <<>>
      frac == IF a % 10 = 0 THEN <<>> ELSE <<".", Digits[(a % 10) + 1]>>
  IN sign \o NatDigits(a \div 10) \o frac

\* The tenths of digits [ "." digits ] read at position p: [len, n]; len = 0
\* when no number starts there.  A leading "." needs a digit after it.
ReadDecimal(s, p) ==
  LET k == DigitRun(s, p)
      dot == p + k <= Len(s) /\ s[p + k] = "."
      m == IF dot THEN DigitRun(s, p + k + 1) ELSE 0
      ip == DigitsValue(s, p, k)
  IN IF k = 0 /\ m = 0 THEN [len |-> 0, n |-> 0]
     ELSE IF m = 0 THEN [len |-> k, n |-> ip * 10]
     ELSE [len |-> k + 1 + m, n |-> ip * 10 + DigitVal(s[p + k + 1])]

\* parseFloat: leading white space, an optional sign, the longest decimal
\* prefix; [nan, n].
ParseFloat(str) ==
  LET s == TrimLeft(str)
      neg == s # <<>> /\ s[1] = "-"
      p == IF s # <<>> /\ (s[1] = "-" \/ s[1] = "+") THEN 2 ELSE 1
      r == ReadDecimal(s, p)
  IN IF r.len = 0 THEN [nan |-> TRUE, n |-> 0]
     ELSE [nan |-> FALSE, n |-> IF neg THEN -r.n ELSE r.n]

\* /^[0-9]+(\.[0-9]+)?$/.test(s)
IsPlainDecimal(s) ==
  LET k == DigitRun(s, 1)
      dot == k < Len(s) /\ s[k + 1] = "."
      m == IF dot THEN DigitRun(s, k + 2) ELSE 0
  IN /\ k > 0
     /\ \/ Len(s) = k
        \/ dot /\ m > 0 /\ Len(s) = k + 1 + m

\* text.indexOf(pat, from), positions counted from 1; 0 when absent.
IndexOf(text, pat, from) ==
  LET hits == {i \in from..(Len(text) - Len(pat) + 1) :
                 SubSeq(text, i, i + Len(pat) - 1) = pat}
  IN IF hits = {} THEN 0 ELSE CHOOSE i \in hits : \A j \in hits : i <= j

StartsWith(s, c) == s # <<>> /\ s[1] = c
EndsWith(s, c) == s # <<>> /\ s[Len(s)] = c

(***************************************************************************)
(* JavaScript values.  Every value is a record [t, s, n, f, a]: its type   *)
(* tag, its characters (a string), its number in tenths (a number; 1 or 0  *)
(* for a boolean), its members as <<key, value>> pairs in insertion order   *)
(* (an object), its items (an array).                                      *)
(***************************************************************************)
VUndef == [t |-> "undefined", s |-> <<>>, n |-> 0, f |-> <<>>, a |-> <<>>]
VNull == [t |-> "null", s |-> <<>>, n |-> 0, f |-> <<>>, a |-> <<>>]
VStr(str) == [t |-> "string", s |-> str, n |-> 0, f |-> <<>>, a |-> <<>>]
VNum(k) == [t |-> "number", s |-> <<>>, n |-> k, f |-> <<>>, a |-> <<>>]
VBool(b) == [t |-> "boolean", s |-> <<>>, n |-> (IF b THEN 1 ELSE 0), f |-> <<>>, a |-> <<>>]
VObj(pairs) == [t |-> "object", s |-> <<>>, n |-> 0, f |-> pairs, a |-> <<>>]
VArr(items) == [t |-> "array", s |-> <<>>, n |-> 0, f |-> <<>>, a |-> items]

\* obj[key] = value: an existing key keeps its place.
SetMember(pairs, key, value) ==
  IF \E i \in 1..Len(pairs) : pairs[i][1] = key
  THEN [i \in 1..Len(pairs) |-> IF pairs[i][1] = key THEN <<key, value>> ELSE pairs[i]]
  ELSE Append(pairs, <<key, value>>)

\* v.key of any value: undefined unless v is an object that has the key.
Member(v, key) ==
  IF v.t = "object" /\ \E i \in 1..Len(v.f) : v.f[i][1] = key
  THEN v.f[CHOOSE i \in 1..Len(v.f) : v.f[i][1] = key][2]
  ELSE VUndef

\* typeof v === "object" && v (arrays included).
IsObjectLike(v) == v.t = "object" \/ v.t = "array"

(***************************************************************************)
(* JSON.stringify and JSON.parse on the modelled values.  Strings hold     *)
(* printable ASCII; the escapes are \" \\ and \/; number literals carry no *)
(* exponent.                                                               *)
(***************************************************************************)
RECURSIVE EscapeString(_)
EscapeString(str) ==
  IF str = <<>> THEN <<>>
  ELSE (IF Head(str) = "\"" \/ Head(str) = "\\" THEN <<"\\", Head(str)>> ELSE <<Head(str)>>)
       \o EscapeString(Tail(str))

QuoteString(str) == <<"\"">> \o EscapeString(str) \o <<"\"">>

RECURSIVE Stringify(_)
RECURSIVE StringifyItems(_, _)
RECURSIVE StringifyMembers(_, _)
Stringify(v) ==
  CASE v.t = "string" -> QuoteString(v.s)
    [] v.t = "number" -> NumberToString(v.n)
    [] v.t = "boolean" -> IF v.n = 1 THEN <<"t","r","u","e">> ELSE <<"f","a","l","s","e">>
    [] v.t = "array" -> <<"[">> \o StringifyItems(v.a, 1) \o <<"]">>
    [] v.t = "object" -> <<"{">> \o StringifyMembers(v.f, 1) \o <<"}">>
    [] OTHER -> <<"n","u","l","l">>

StringifyItems(items, i) ==
  IF i > Len(items) THEN <<>>
  ELSE (IF i > 1 THEN <<",">> ELSE <<>>) \o Stringify(items[i]) \o StringifyItems(items, i + 1)

StringifyMembers(pairs, i) ==
  IF i > Len(pairs) THEN <<>>
  ELSE (IF i > 1 THEN <<",">> ELSE <<>>)
       \o QuoteString(pairs[i][1]) \o <<":">> \o Stringify(pairs[i][2])
       \o StringifyMembers(pairs, i + 1)

ParseFail == [ok |-> FALSE, v |-> VUndef, pos |-> 0]
ParseOk(v, pos) == [ok |-> TRUE, v |-> v, pos |-> pos]

RECURSIVE SkipSpace(_, _)
SkipSpace(text, p) ==
  IF p <= Len(text) /\ IsSpace(text[p]) THEN SkipSpace(text, p + 1) ELSE p

At(text, p, c) == p <= Len(text) /\ text[p] = c

Matches(text, p, word) ==
  p + Len(word) - 1 <= Len(text) /\ SubSeq(text, p, p + Len(word) - 1) = word

\* The characters of a string literal whose opening quote precedes p.
RECURSIVE ParseStringBody(_, _, _)
ParseStringBody(text, p, acc) ==
  IF p > Len(text) THEN ParseFail
  ELSE IF text[p] = "\"" THEN ParseOk(VStr(acc), p + 1)
  ELSE IF text[p] = "\\" THEN
    IF p + 1 <= Len(text) /\ text[p + 1] \in {"\"", "\\", "/"}
    THEN ParseStringBody(text, p + 2, Append(acc, text[p + 1]))
    ELSE ParseFail
  ELSE ParseStringBody(text, p + 1, Append(acc, text[p]))

\* A number literal: -? (0 | [1-9][0-9]*) (\. [0-9]+)?
ParseNumber(text, p) ==
  LET neg == At(text, p, "-")
      q == IF neg THEN p + 1 ELSE p
      k == DigitRun(text, q)
      r == ReadDecimal(text, q)
  IN IF k = 0 \/ (k > 1 /\ text[q] = "0") \/ (At(text, q + k, ".") /\ r.len = k)
     THEN ParseFail
     ELSE ParseOk(VNum(IF neg THEN -r.n ELSE r.n), q + r.len)

RECURSIVE ParseValue(_, _)
RECURSIVE ParseItems(_, _, _)
RECURSIVE ParseMembers(_, _, _)
ParseValue(text, p0) ==
  LET p == SkipSpace(text, p0)
  IN IF p > Len(text) THEN ParseFail
     ELSE IF text[p] = "\"" THEN ParseStringBody(text, p + 1, <<>>)
     ELSE IF text[p] = "[" THEN
       IF At(text, SkipSpace(text, p + 1), "]")
       THEN ParseOk(VArr(<<>>), SkipSpace(text, p + 1) + 1)
       ELSE ParseItems(text, p + 1, <<>>)
     ELSE IF text[p] = "{" THEN
       IF At(text, SkipSpace(text, p + 1), "}")
       THEN ParseOk(VObj(<<>>), SkipSpace(text, p + 1) + 1)
       ELSE ParseMembers(text, p + 1, <<>>)
     ELSE IF text[p] = "-" \/ IsDigit(text[p]) THEN ParseNumber(text, p)
     ELSE IF Matches(text, p, <<"t","r","u","e">>) THEN ParseOk(VBool(TRUE), p + 4)
     ELSE IF Matches(text, p, <<"f","a","l","s","e">>) THEN ParseOk(VBool(FALSE), p + 5)
     ELSE IF Matches(text, p, <<"n","u","l","l">>) THEN ParseOk(VNull, p + 4)
     ELSE ParseFail

ParseItems(text, p, acc) ==
  LET r == ParseValue(text, p)
      q == SkipSpace(text, r.pos)
  IN IF ~r.ok THEN ParseFail
     ELSE IF At(text, q, ",") THEN ParseItems(text, q + 1, Append(acc, r.v))
     ELSE IF At(text, q, "]") THEN ParseOk(VArr(Append(acc, r.v)), q + 1)
     ELSE ParseFail

ParseMembers(text, p0, acc) ==
  LET p == SkipSpace(text, p0)
      k == IF At(text, p, "\"") THEN ParseStringBody(text, p + 1, <<>>) ELSE ParseFail
      c == SkipSpace(text, k.pos)
      r == IF k.ok /\ At(text, c, ":") THEN ParseValue(text, c + 1) ELSE ParseFail
      q == SkipSpace(text, r.pos)
  IN IF ~r.ok THEN ParseFail
     ELSE IF At(text, q, ",") THEN ParseMembers(text, q + 1, SetMember(acc, k.v.s, r.v))
     ELSE IF At(text, q, "}") THEN ParseOk(VObj(SetMember(acc, k.v.s, r.v)), q + 1)
     ELSE ParseFail

\* JSON.parse(text): [ok, v]; ok = FALSE stands for the SyntaxError.
JSONParse(text) ==
  LET r == ParseValue(text, 1)
  IN IF r.ok /\ SkipSpace(text, r.pos) = Len(text) + 1
     THEN [ok |-> TRUE, v |-> r.v]
     ELSE [ok |-> FALSE, v |-> VUndef]

(***************************************************************************)
(* /api/calculate: structural extraction, validation, parsing.             *)
(***************************************************************************)
K_courses == <<"c","o","u","r","s","e","s">>
K_course_title == <<"c","o","u","r","s","e","_","t","i","t","l","e">>
K_course_code == <<"c","o","u","r","s","e","_","c","o","d","e">>
K_credits == <<"c","r","e","d","i","t","s">>
K_grade == <<"g","r","a","d","e">>

\* One turn of the loop that looks for the end of the courses array (lines
\* 107 to 114) at position i of after; st is [depth, endPos], endPos = 0
\* while the loop runs, and the loop has left (break) once endPos is set.
FindArrayEndStep(after, st, i) ==
  IF st.endPos # 0 THEN st
  ELSE IF after[i] = "[" THEN [st EXCEPT !.depth = @ + 1]
  ELSE IF after[i] = "]" THEN
    IF st.depth - 1 = 0 THEN [depth |-> 0, endPos |-> i]
    ELSE [st EXCEPT !.depth = @ - 1]
  ELSE st

\* The turns lo..hi of that loop, in order, from state st.  The range is
\* run by halves, the state after the first half being a value before the
\* second half starts, which keeps the evaluation shallow on long texts.
RECURSIVE FindArrayEndLoop(_, _, _, _)
FindArrayEndLoop(after, st, lo, hi) ==
  IF lo > hi THEN st
  ELSE IF lo = hi THEN FindArrayEndStep(after, st, lo)
  ELSE LET mid == (lo + hi) \div 2
       IN CHOOSE out \in {FindArrayEndLoop(after, half, mid + 1, hi) :
                            half \in {FindArrayEndLoop(after, st, lo, mid)}} : TRUE

\* The first "]" after bracketStart, whatever the depth; 0 when none.
FindArrayEnd_First(after, bracketStart) ==
  IndexOf(after, <<"]">>, bracketStart + 1)

\* The position of the "]" closing the "[" at bracketStart; 0 when none.
FindArrayEnd(after, bracketStart) ==
  FindArrayEndLoop(after, [depth |-> 0, endPos |-> 0], bracketStart, Len(after)).endPos

\* One turn of the loop that splits the array content into its top-level
\* {...} segments (lines 120 to 134); st is [buf, braceDepth, items].
SplitItemsStep(arrayContent, st, i) ==
  LET ch == arrayContent[i]
  IN IF ch = "{" THEN
       [buf |-> (IF st.braceDepth = 0 THEN <<>> ELSE st.buf) \o <<ch>>,
        braceDepth |-> st.braceDepth + 1, items |-> st.items]
     ELSE IF st.braceDepth > 0 THEN
       IF ch = "}" /\ st.braceDepth - 1 = 0
       THEN [buf |-> <<>>, braceDepth |-> 0,
             items |-> Append(st.items, st.buf \o <<ch>>)]
       ELSE [buf |-> st.buf \o <<ch>>,
             braceDepth |-> (IF ch = "}" THEN st.braceDepth - 1 ELSE st.braceDepth),
             items |-> st.items]
     ELSE st

RECURSIVE SplitItemsLoop(_, _, _, _)
SplitItemsLoop(arrayContent, st, lo, hi) ==
  IF lo > hi THEN st
  ELSE IF lo = hi THEN SplitItemsStep(arrayContent, st, lo)
  ELSE LET mid == (lo + hi) \div 2
       IN CHOOSE out \in {SplitItemsLoop(arrayContent, half, mid + 1, hi) :
                            half \in {SplitItemsLoop(arrayContent, st, lo, mid)}} : TRUE

\* The top-level {...} segments of arrayContent, by brace depth.
SplitItems(arrayContent) ==
  SplitItemsLoop(arrayContent, [buf |-> <<>>, braceDepth |-> 0, items |-> <<>>],
                 1, Len(arrayContent)).items

\* The length of the longest run of identifier characters of s from p on.
IdentRun(s, p) ==
  LET stops == {q \in p..Len(s) : ~IsIdentChar(s[q])}
  IN IF stops = {} THEN (IF p > Len(s) THEN 0 ELSE Len(s) + 1 - p) ELSE Min(stops) - p

\* The first position at or after p holding "," or "}"; Len(s) + 1 when none.
ValueEnd(s, p) ==
  LET stops == {q \in p..Len(s) : s[q] = "," \/ s[q] = "}"}
  IN IF stops = {} THEN (IF p > Len(s) THEN p ELSE Len(s) + 1) ELSE Min(stops)

\* pairRegex, /([A-Za-z_][A-Za-z0-9_]*)\s*:\s*([^,}]+)\s*(?=,|})/, tried at
\* position p of raw: [ok, key, val, last]; last is where the match ends.
\* The identifier and the value run are greedy, and no shorter choice of
\* either can match when the longest does not.
MatchPairAt(raw, p) ==
  LET k == IdentRun(raw, p)
      colon == SkipSpace(raw, p + k)
      e == ValueEnd(raw, colon + 1)
  IN IF /\ p <= Len(raw)
        /\ IsIdentStart(raw[p])
        /\ At(raw, colon, ":")
        /\ e > colon + 1
        /\ e <= Len(raw)
     THEN [ok |-> TRUE, key |-> SubSeq(raw, p, p + k - 1),
           val |-> SubSeq(raw, colon + 1, e - 1), last |-> e]
     ELSE [ok |-> FALSE, key |-> <<>>, val |-> <<>>, last |-> 0]

\* pairRegex.exec(raw) with lastIndex at from: the leftmost match.
ExecPair(raw, from) ==
  LET hits == {p \in from..Len(raw) : MatchPairAt(raw, p).ok}
  IN IF hits = {} THEN [ok |-> FALSE, key |-> <<>>, val |-> <<>>, last |-> 0]
     ELSE MatchPairAt(raw, Min(hits))

\* The value stored for a matched pair (lines 144 to 154).
PairValue(val) ==
  LET trimmed == Trim(val)
      valRaw == IF \/ StartsWith(trimmed, "\"") /\ EndsWith(trimmed, "\"")
                   \/ StartsWith(trimmed, "'") /\ EndsWith(trimmed, "'")
                THEN SubSeq(trimmed, 2, Len(trimmed) - 1)
                ELSE trimmed
  IN IF IsPlainDecimal(valRaw) THEN VNum(ParseFloat(valRaw).n) ELSE VStr(valRaw)

\* The while loop over pairRegex.exec(raw) (lines 140 to 156).
RECURSIVE CollectPairs(_, _, _)
CollectPairs(raw, from, obj) ==
  LET m == ExecPair(raw, from)
  IN IF ~m.ok THEN obj
     ELSE CollectPairs(raw, m.last, SetMember(obj, m.key, PairValue(m.val)))

\* extractCoursesStructurally: [ok, error, items, courses].
extractCoursesStructurally(text) ==
  LET coursesIdx == IndexOf(text, K_courses, 1)
      after == SubSeq(text, coursesIdx, Len(text))
      colonIdx == IndexOf(after, <<":">>, 1)
      bracketStart == IndexOf(after, <<"[">>, colonIdx)
      endPos == FindArrayEnd(after, bracketStart)
      arrayContent == SubSeq(after, bracketStart + 1, endPos - 1)
      items == SplitItems(arrayContent)
      Thrown(msg) == [ok |-> FALSE, error |-> msg, items |-> <<>>, courses |-> <<>>]
  IN IF coursesIdx = 0 THEN Thrown("No courses section")
     ELSE IF colonIdx = 0 THEN Thrown("Malformed courses section")
     ELSE IF bracketStart = 0 THEN Thrown("No courses array start")
     ELSE IF endPos = 0 THEN Thrown("Unterminated courses array")
     ELSE [ok |-> TRUE, error |-> "", items |-> items,
           courses |-> [i \in 1..Len(items) |-> VObj(CollectPairs(items[i], 1, <<>>))]]

\* extractCoursesStructurally of the decoding script: the copy of the
\* function that throws for a missing courses only.  A missing colon makes
\* indexOf("[", -1) search from the start of after; a missing "[" makes the
\* depth loop start before the text and the content start at its first
\* character; a missing "]" makes slice(bracketStart + 1, -1) drop the last
\* character.
extractCoursesStructurally_script(text) ==
  LET coursesIdx == IndexOf(text, K_courses, 1)
      after == SubSeq(text, coursesIdx, Len(text))
      colonIdx == IndexOf(after, <<":">>, 1)
      bracketStart == IndexOf(after, <<"[">>, IF colonIdx = 0 THEN 1 ELSE colonIdx)
      endPos == FindArrayEnd(after, IF bracketStart = 0 THEN 1 ELSE bracketStart)
      arrayContent == SubSeq(after, bracketStart + 1,
                             IF endPos = 0 THEN Len(after) - 1 ELSE endPos - 1)
      items == SplitItems(arrayContent)
  IN IF coursesIdx = 0
     THEN [ok |-> FALSE, error |-> "No courses section", items |-> <<>>, courses |-> <<>>]
     ELSE [ok |-> TRUE, error |-> "", items |-> items,
           courses |-> [i \in 1..Len(items) |-> VObj(CollectPairs(items[i], 1, <<>>))]]

\* The test of filterValidCourses on one raw record (lines 164 to 171).
IsValidCourse(c) ==
  /\ IsObjectLike(c)
  /\ Member(c, K_course_title).t = "string"
  /\ \/ Member(c, K_credits).t = "number"
     \/ /\ Member(c, K_credits).t = "string"
        /\ ~ParseFloat(Member(c, K_credits).s).nan
  /\ Member(c, K_grade).t = "string"
  /\ Member(c, K_grade).s \in GradeKeys

\* The record filterValidCourses pushes for an accepted raw record.
NormalizedCourse(c) ==
  [course_title |-> Trim(Member(c, K_course_title).s),
   credits |-> IF Member(c, K_credits).t = "number"
               THEN Member(c, K_credits).n
               ELSE ParseFloat(Member(c, K_credits).s).n,
   grade |-> Member(c, K_grade).s]

\* A mutation of filterValidCourses: the title is copied without trim().
filterValidCourses_NoTrim(raw) ==
  LET kept == SelectSeq(raw, IsValidCourse)
  IN [i \in 1..Len(kept) |->
        [NormalizedCourse(kept[i]) EXCEPT !.course_title = Member(kept[i], K_course_title).s]]

filterValidCourses(raw) ==
  LET kept == SelectSeq(raw, IsValidCourse)
  IN [i \in 1..Len(kept) |-> NormalizedCourse(kept[i])]

\* parseCoursesFromText: [ok, path, error, raw, courses]; ok = FALSE stands
\* for the exception thrown, path tells which strategy produced the outcome,
\* raw is the record list handed to filterValidCourses.
parseCoursesFromText(text) ==
  Bind(JSONParse(text), LAMBDA parsed :
  Bind(IF parsed.v.t = "array" THEN parsed.v
       ELSE IF Member(parsed.v, K_courses).t = "array" THEN Member(parsed.v, K_courses)
       ELSE VNull, LAMBDA arr :
    IF parsed.ok /\ IsObjectLike(parsed.v) /\ arr.t = "array"
    THEN [ok |-> TRUE, path |-> "strict", error |-> "", raw |-> arr.a,
          courses |-> filterValidCourses(arr.a)]
    ELSE
      Bind(extractCoursesStructurally(text), LAMBDA extracted :
      Bind(filterValidCourses(extracted.courses), LAMBDA filtered :
        IF ~extracted.ok
        THEN [ok |-> FALSE, path |-> "fallback", error |-> extracted.error,
              raw |-> <<>>, courses |-> <<>>]
        ELSE IF Len(filtered) = 0
        THEN [ok |-> FALSE, path |-> "fallback", error |-> "No valid courses",
              raw |-> extracted.courses, courses |-> <<>>]
        ELSE [ok |-> TRUE, path |-> "fallback", error |-> "",
              raw |-> extracted.courses, courses |-> filtered]))))

(***************************************************************************)
(* The two HTTP handlers of the pipeline: POST /api/gpa and                *)
(* GET /api/calculate.  A response is [status, error, encoded, hasCgpa,    *)
(* cgpa, plain]; cgpa is held in hundredths.                               *)
(***************************************************************************)
\* A mutation of toFixed(2): the digits after the second decimal are cut off.
ToFixed2_Truncate(q) ==
  LET h == (100 * Abs(q.n)) \div q.d
  IN IF q.n < 0 THEN -h ELSE h

\* Number(x.toFixed(2)) in hundredths, for a finite quotient: the nearest
\* hundredth, a tie going away from zero.
ToFixed2(q) ==
  LET h == (200 * Abs(q.n) + q.d) \div (2 * q.d)
  IN IF q.n < 0 THEN -h ELSE h

MalformedData == "Invalid or malformed data string provided."

\* NextResponse.json({ error }, { status })
JsonError(status, message) ==
  [status |-> status, error |-> message, encoded |-> <<>>, hasCgpa |-> FALSE,
   cgpa |-> 0, plain |-> FALSE]

\* NextResponse.json({ encoded }, { status: 200 })
JsonEncoded(encodedString) ==
  [status |-> 200, error |-> "", encoded |-> encodedString, hasCgpa |-> FALSE,
   cgpa |-> 0, plain |-> FALSE]

\* NextResponse.json({ cgpa }, { status: 200 }), or the text/plain body.
CgpaResponse(cgpa, wantPlain) ==
  [status |-> 200, error |-> "", encoded |-> <<>>, hasCgpa |-> TRUE,
   cgpa |-> cgpa, plain |-> wantPlain]

\* The test POST /api/gpa applies to one element of the body (lines 28 to 32);
\* reading a property of null or undefined throws.
ThrowsOnRead(course) == course.t = "null" \/ course.t = "undefined"

IsCourseInput(course) ==
  /\ Member(course, K_course_code).t = "string"
  /\ Member(course, K_credits).t = "number"
  /\ Member(course, K_grade).t = "string"

\* POST of /api/gpa on a parsed request body.
POST_gpa(courses) ==
  LET bad == {i \in 1..Len(courses.a) :
                ThrowsOnRead(courses.a[i]) \/ ~IsCourseInput(courses.a[i])}
  IN IF courses.t # "array"
     THEN JsonError(400, "Input must be an array of course objects")
     ELSE IF bad # {} /\ ThrowsOnRead(courses.a[Min(bad)])
     THEN JsonError(400, "Failed to process course data")
     ELSE IF bad # {}
     THEN JsonError(400, "Invalid course data structure")
     ELSE JsonEncoded(base64UrlEncode(gzipSync(Utf8Encode(Stringify(courses)))))

\* What a run of GET /api/calculate went through: the stage it ended at, the
\* decompressed text, the parsing strategy, the raw record list and the
\* normalized courses.
Trace(stage, text, path, raw, courses) ==
  [stage |-> stage, text |-> text, path |-> path, raw |-> raw, courses |-> courses]

\* GET of /api/calculate: [res, trace].  Buffer.from never throws, so step 1
\* cannot fail; an empty data string is treated as a missing one.
GET_calculate(hasData, encodedData, wantPlain) ==
  Bind(JsonError(400, MalformedData), LAMBDA error :
    IF ~hasData \/ encodedData = <<>>
    THEN [res |-> error, trace |-> Trace("missing", <<>>, "none", <<>>, <<>>)]
    ELSE
      Bind(base64UrlDecode(encodedData), LAMBDA decodedBuffer :
      Bind(gunzipSync(decodedBuffer), LAMBDA decompressedData :
        IF ~decompressedData.ok
        THEN [res |-> error, trace |-> Trace("gunzip", <<>>, "none", <<>>, <<>>)]
        ELSE
          Bind(Utf8Decode(decompressedData.bytes), LAMBDA jsonString :
          Bind(parseCoursesFromText(jsonString), LAMBDA parsed :
            IF ~parsed.ok
            THEN [res |-> error,
                  trace |-> Trace("parse", jsonString, parsed.path, parsed.raw, <<>>)]
            ELSE
              Bind(ToFixed2(calculateCGPA(parsed.courses)), LAMBDA cgpa :
                [res |-> CgpaResponse(cgpa, wantPlain),
                 trace |-> Trace("done", jsonString, parsed.path, parsed.raw,
                                 parsed.courses)]))))))

(***************************************************************************)
(* The idle value of each component's state, for the specifications that   *)
(* do not exercise it.                                                     *)
(***************************************************************************)
AggNone == "none"

AggIdle ==
  /\ aggPc = "idle"
  /\ aggFn = AggNone
  /\ aggIn = <<>>
  /\ aggOut = Zero

NoBytes == [ok |-> FALSE, bytes |-> <<>>]

CodecIdle ==
  /\ codecPc = "idle"
  /\ codecIn = <<>>
  /\ codecStd = <<>>
  /\ codecEnc = <<>>
  /\ codecVia = "none"
  /\ codecPadded = <<>>
  /\ codecOut = NoBytes

NoBody == VUndef
NoResponse == JsonError(0, "")
NoRequest == [kind |-> "none", hasData |-> FALSE, data |-> <<>>, plain |-> FALSE,
              shape |-> "none", writer |-> "none", records |-> <<>>]
NoTrace == Trace("none", <<>>, "none", <<>>, <<>>)

PipeIdle ==
  /\ pipePc = "idle"
  /\ gpaBody = NoBody
  /\ gpaRes = NoResponse
  /\ calcReq = NoRequest
  /\ calcRes = NoResponse
  /\ calcTrace = NoTrace

NoStudent == [cgpa |-> Zero, courses |-> <<>>]
NoShown == [semesters |-> <<>>, cgpa |-> 0, avg |-> 0, courses |-> 0,
            semesterCount |-> 0, cgpaFrom |-> "none"]

ReportIdle ==
  /\ reportPc = "idle"
  /\ reportVariant = "none"
  /\ originalData = NoStudent
  /\ currentData = NoStudent
  /\ shown = NoShown

NoGroups == [failed |-> FALSE, groups |-> <<>>]

GroupIdle ==
  /\ groupPc = "idle"
  /\ groupFn = "none"
  /\ groupIn = <<>>
  /\ groupOut = NoGroups

PostIdle ==
  /\ postPc = "idle"
  /\ postReq = NoRequest
  /\ postGet = NoResponse
  /\ postRes = NoResponse

NoPage == [status |-> 0, page |-> "none", strict |-> "none", salvaged |-> FALSE,
           html |-> NoShown]

NoAppRequest ==
  [kind |-> "none", hasData |-> FALSE, data |-> <<>>, doc |-> VUndef, writer |-> "none"]

AppIdle ==
  /\ appPc = "idle"
  /\ appReq = NoAppRequest
  /\ appRes = NoPage

NoTextOut == [ok |-> FALSE, text |-> <<>>, records |-> <<>>]

TextIdle ==
  /\ textPc = "idle"
  /\ textFn = "none"
  /\ textIn = <<>>
  /\ textOut = NoTextOut

HeapIdle ==
  /\ heapPc = "idle"
  /\ heapVariant = "none"
  /\ heap = <<>>
  /\ initialRef = 0
  /\ dataRef = 0
  /\ decoded = <<>>

\* cgpa: number | null
NoCgpa == [null |-> TRUE, q |-> Zero]
EmptyCourse == [title |-> <<>>, credits |-> <<>>, grade |-> <<>>]

\* The state of a calculator page when it is mounted.
PageIdle ==
  /\ manualCourses = <<>>
  /\ manualCgpa = NoCgpa
  /\ currentCourse = EmptyCourse
  /\ clock = 0
  /\ isLoading = FALSE
  /\ importSuccess = FALSE
  /\ importError = "null"
  /\ importedCgpa = NoCgpa
  /\ pending = {}
  /\ started = 0
  /\ lastData = <<>>

(***************************************************************************)
(* Aggregator harness: the weighted average applied to bounded lists of    *)
(* course records (credits >= 0, grade in the fixed set).                  *)
(***************************************************************************)
AggTitles == {<<"X">>}
AggCredits == {0, 30, 40}
AggCourse == [course_title : AggTitles, credits : AggCredits, grade : GradeKeys]

AggInit ==
  /\ CodecIdle /\ PipeIdle /\ ReportIdle /\ GroupIdle /\ PostIdle /\ AppIdle
  /\ PageIdle
  /\ HeapIdle
  /\ TextIdle
  /\ aggPc = "ready"
  /\ aggFn = AggNone
  /\ aggIn \in SeqsUpTo(AggCourse, MaxAggCourses)
  /\ aggOut = Zero

CallCalculateCGPA ==
  /\ aggPc = "ready"
  /\ aggPc' = "done"
  /\ aggFn' = "calculateCGPA"
  /\ aggOut' = calculateCGPA(aggIn)
  /\ UNCHANGED <<aggIn, aggRest>>

CallCalculateSemesterGPA ==
  /\ aggPc = "ready"
  /\ aggPc' = "done"
  /\ aggFn' = "calculateSemesterGPA"
  /\ aggOut' = calculateSemesterGPA_app(aggIn)
  /\ UNCHANGED <<aggIn, aggRest>>

AggNext == CallCalculateCGPA \/ CallCalculateSemesterGPA

SpecAgg == AggInit /\ [][AggNext]_vars

\* The weighted average as the formula states it.
WeightedFormula(courses) ==
  Quot(TotalGradePoints(NotP(courses)), TotalCredits(NotP(courses)))

CodecBytes == {0, 65, 251, 255}

CodecInit ==
  /\ AggIdle /\ PipeIdle /\ ReportIdle /\ GroupIdle /\ PostIdle /\ AppIdle
  /\ PageIdle
  /\ HeapIdle
  /\ TextIdle
  /\ codecPc = "input"
  /\ codecIn \in SeqsUpTo(CodecBytes, MaxBytes)
  /\ codecStd = <<>>
  /\ codecEnc = <<>>
  /\ codecVia = "none"
  /\ codecPadded = <<>>
  /\ codecOut = NoBytes

\* /api/gpa POST, steps 2 and 3: gzipSync, then base64UrlEncode.
EncodeTransport ==
  /\ codecPc = "input"
  /\ codecPc' = "encoded"
  /\ codecStd' = ToBase64(gzipSync(codecIn))
  /\ codecEnc' = base64UrlEncode(gzipSync(codecIn))
  /\ UNCHANGED <<codecIn, codecVia, codecPadded, codecOut, codecRest>>

\* /api/calculate GET, steps 1 and 2: base64UrlDecode, then gunzipSync.
DecodeTransportLegacy ==
  /\ codecPc = "encoded"
  /\ codecPc' = "decoded"
  /\ codecVia' = "base64UrlDecode"
  /\ codecPadded' = base64UrlPadded(codecEnc)
  /\ codecOut' = gunzipSync(base64UrlDecode(codecEnc))
  /\ UNCHANGED <<codecIn, codecStd, codecEnc, codecRest>>

\* decodePayload, lines 5 to 11.
DecodeTransportPayload ==
  /\ codecPc = "encoded"
  /\ codecPc' = "decoded"
  /\ codecVia' = "decodePayload"
  /\ codecPadded' = decodePayloadPadded(codecEnc)
  /\ codecOut' = gunzipSync(FromBase64(decodePayloadPadded(codecEnc)))
  /\ UNCHANGED <<codecIn, codecStd, codecEnc, codecRest>>

CodecNext == EncodeTransport \/ DecodeTransportLegacy \/ DecodeTransportPayload

SpecCodec == CodecInit /\ [][CodecNext]_vars

\* C3: decoding an encoded byte sequence returns exactly that sequence, and
\* the decoder hands the base64 decoder the very base64 text the encoder
\* produced before it stripped the padding (the padding is re-added exactly).
C3_RoundTrip ==
  codecPc = "decoded" =>
    /\ codecOut.ok
    /\ codecOut.bytes = codecIn
    /\ codecPadded = codecStd

\* A decoded payload whose base64 text had padding stripped and both
\* substituted characters.
C3_Witness ==
  /\ codecPc = "decoded"
  /\ Len(codecStd) > Len(codecEnc)
  /\ \E i \in 1..Len(codecEnc) : codecEnc[i] = "-"
  /\ \E i \in 1..Len(codecEnc) : codecEnc[i] = "_"
  /\ codecOut.bytes = codecIn
  /\ Len(codecIn) > 0

(***************************************************************************)
(* Pipeline harness: a client posts a course list to /api/gpa and passes   *)
(* the encoded string to /api/calculate, or calls /api/calculate with a    *)
(* payload it built itself: a document (a bare array of raw records, or an *)
(* object with a courses array) written as strict JSON or as a literal     *)
(* with unquoted keys and values, or a payload broken at one stage.        *)
(***************************************************************************)
Rec(pairs) == VObj(pairs)

\* The raw records of the modelled documents.
RecMinimal ==
  Rec(<< <<K_course_title, VStr(<<"X">>)>>, <<K_credits, VNum(30)>>,
         <<K_grade, VStr(G_A)>> >>)
RecCoded ==
  Rec(<< <<K_course_code, VStr(<<"C","1">>)>>, <<K_course_title, VStr(<<"V">>)>>,
         <<K_credits, VNum(40)>>, <<K_grade, VStr(G_B)>> >>)
RecUntrimmed ==
  Rec(<< <<K_course_title, VStr(<<" ","Y"," ">>)>>, <<K_credits, VStr(<<"4",".","0">>)>>,
         <<K_grade, VStr(G_S)>> >>)
RecUnknownGrade ==
  Rec(<< <<K_course_code, VStr(<<"C","2">>)>>, <<K_course_title, VStr(<<"Z">>)>>,
         <<K_credits, VNum(40)>>, <<K_grade, VStr(<<"X">>)>> >>)
RecNoTitle ==
  Rec(<< <<K_course_code, VStr(<<"M">>)>>, <<K_credits, VNum(40)>>,
         <<K_grade, VStr(G_A)>> >>)
RecBlankTitle ==
  Rec(<< <<K_course_title, VStr(<<" ">>)>>, <<K_credits, VNum(30)>>,
         <<K_grade, VStr(G_B)>> >>)
RecOddCredits ==
  Rec(<< <<K_course_title, VStr(<<"W">>)>>, <<K_credits, VStr(<<"-","3","a">>)>>,
         <<K_grade, VStr(G_A)>> >>)

RawRecords ==
  {RecMinimal, RecCoded, RecUntrimmed, RecUnknownGrade, RecNoTitle, RecBlankTitle,
   RecOddCredits}

Shapes == {"array", "object"}
Writers == {"json", "literal"}

\* The text separated by sep of a sequence of texts.
RECURSIVE JoinTexts(_, _)
JoinTexts(parts, sep) ==
  IF Len(parts) = 0 THEN <<>>
  ELSE IF Len(parts) = 1 THEN parts[1]
  ELSE parts[1] \o sep \o JoinTexts(Tail(parts), sep)

\* A value written as a JS-like literal without strict JSON quoting, as in
\* [{course_title: X, credits: 3, grade: A}].
RECURSIVE WriteLiteral(_)
WriteLiteral(v) ==
  CASE v.t = "string" -> v.s
    [] v.t = "number" -> NumberToString(v.n)
    [] v.t = "array" ->
         <<"[">> \o JoinTexts([i \in 1..Len(v.a) |-> WriteLiteral(v.a[i])], <<",", " ">>)
                 \o <<"]">>
    [] v.t = "object" ->
         <<"{">> \o JoinTexts([i \in 1..Len(v.f) |->
                                v.f[i][1] \o <<":", " ">> \o WriteLiteral(v.f[i][2])],
                              <<",", " ">>)
                 \o <<"}">>
    [] OTHER -> <<"n","u","l","l">>

\* The document of a request and its text.
Document(shape, records) ==
  IF shape = "array" THEN VArr(records) ELSE VObj(<< <<K_courses, VArr(records)>> >>)

DocumentText(shape, writer, records) ==
  IF writer = "json" THEN Stringify(Document(shape, records))
  ELSE WriteLiteral(Document(shape, records))

\* JSON -> gzip -> base64url, the encoding steps of /api/gpa on a text.
EncodeText(text) == base64UrlEncode(gzipSync(Utf8Encode(text)))

Request(kind, hasData, data, plain, shape, writer, records) ==
  [kind |-> kind, hasData |-> hasData, data |-> data, plain |-> plain,
   shape |-> shape, writer |-> writer, records |-> records]

DocumentRequest(shape, writer, records, plain) ==
  Request("document", TRUE, EncodeText(DocumentText(shape, writer, records)), plain,
          shape, writer, records)

\* Payloads that fail before any record is looked at.
BrokenKinds == {"missing", "empty", "notbase64", "notgzip", "truncated", "nottext"}

BrokenRequest(kind, plain) ==
  LET good == EncodeText(Stringify(VArr(<<RecMinimal>>)))
      data == CASE kind = "missing" -> <<>>
                [] kind = "empty" -> <<>>
                [] kind = "notbase64" -> <<"!", "!", "!", "!">>
                [] kind = "notgzip" -> base64UrlEncode(Utf8Encode(Stringify(VArr(<<RecMinimal>>))))
                [] kind = "truncated" -> SubSeq(good, 1, Len(good) - 4)
                [] OTHER -> EncodeText(<<"h","e","l","l","o">>)
  IN Request(kind, kind # "missing", data, plain, "none", "none", <<>>)

\* The bodies posted to /api/gpa.
GpaBodies ==
  {VArr(records) : records \in SeqsUpTo(RawRecords, MaxDocCourses)}
    \cup {VObj(<<>>), VArr(<<VNull>>), VArr(<<RecCoded, VNull>>)}

PipeInit ==
  /\ AggIdle /\ CodecIdle /\ ReportIdle /\ GroupIdle /\ PostIdle /\ AppIdle
  /\ PageIdle
  /\ HeapIdle
  /\ TextIdle
  /\ PipeIdle

\* The client posts a body to /api/gpa.
PostGpa ==
  /\ pipePc = "idle"
  /\ \E body \in GpaBodies :
       /\ gpaBody' = body
       /\ gpaRes' = POST_gpa(body)
  /\ pipePc' = "posted"
  /\ UNCHANGED <<calcReq, calcRes, calcTrace, pipeRest>>

\* /api/calculate answers a request.
Answer(req) ==
  LET out == GET_calculate(req.hasData, req.data, req.plain)
  IN /\ calcReq' = req
     /\ calcRes' = out.res
     /\ calcTrace' = out.trace
     /\ pipePc' = "answered"

\* The client uses the encoded string /api/gpa returned as the data
\* parameter of /api/calculate.
GetCalculateEncoded ==
  /\ pipePc = "posted"
  /\ gpaRes.status = 200
  /\ \E plain \in BOOLEAN :
       Answer(Request("encoded", TRUE, gpaRes.encoded, plain, "array", "json", gpaBody.a))
  /\ UNCHANGED <<gpaBody, gpaRes, pipeRest>>

\* The client calls /api/calculate with a document it encoded itself.
GetCalculateDocument ==
  /\ pipePc = "idle"
  /\ \E shape \in Shapes, writer \in Writers, plain \in BOOLEAN,
        records \in SeqsUpTo(RawRecords, MaxDocCourses) :
       Answer(DocumentRequest(shape, writer, records, plain))
  /\ UNCHANGED <<gpaBody, gpaRes, pipeRest>>

\* The client calls /api/calculate with a broken payload, or with none.
GetCalculateBroken ==
  /\ pipePc = "idle"
  /\ \E kind \in BrokenKinds, plain \in BOOLEAN : Answer(BrokenRequest(kind, plain))
  /\ UNCHANGED <<gpaBody, gpaRes, pipeRest>>

PipeNext == PostGpa \/ GetCalculateEncoded \/ GetCalculateDocument \/ GetCalculateBroken

SpecPipe == PipeInit /\ [][PipeNext]_vars

(***************************************************************************)
(* Claims on the pipeline.                                                 *)
(***************************************************************************)
\* A request made of a document written as strict JSON, or of the string
\* /api/gpa returned (which is the strict JSON of the posted array).
Answered == pipePc = "answered"
StrictArrayRequest ==
  /\ Answered
  /\ calcReq.kind \in {"document", "encoded"}
  /\ calcReq.shape = "array"
  /\ calcReq.writer = "json"

\* A normalized course as a JavaScript object.
AsValue(course) ==
  VObj(<< <<K_course_title, VStr(course.course_title)>>,
          <<K_credits, VNum(course.credits)>>, <<K_grade, VStr(course.grade)>> >>)

\* The credits of a raw record as a number: itself, or the number at the
\* start of the string.
CreditsNumber(r) ==
  IF Member(r, K_credits).t = "number" THEN Member(r, K_credits).n
  ELSE ParseFloat(Member(r, K_credits).s).n

PostedAverage(body) ==
  ToFixed2(calculateCGPA([i \in 1..Len(body.a) |->
                            [credits |-> Member(body.a[i], K_credits).n,
                             grade |-> Member(body.a[i], K_grade).s]]))

\* C5 (as stated): the string /api/gpa returns for an accepted course list,
\* passed to /api/calculate, yields status 200 with the weighted average of
\* that list, no accepted course being dropped.
C5_AsStated ==
  (Answered /\ calcReq.kind = "encoded")
    => /\ calcRes.status = 200
       /\ calcRes.hasCgpa
       /\ calcRes.cgpa = PostedAverage(gpaBody)
       /\ Len(calcTrace.courses) = Len(gpaBody.a)

\* The test the specification gives for a raw record: a course_title that is
\* a non-empty string once trimmed, credits that are a number or a string
\* matching a plain decimal pattern, a grade of the fixed set.
SpecAccepts(r) ==
  /\ Member(r, K_course_title).t = "string"
  /\ Trim(Member(r, K_course_title).s) # <<>>
  /\ \/ Member(r, K_credits).t = "number"
     \/ /\ Member(r, K_credits).t = "string"
        /\ IsPlainDecimal(Member(r, K_credits).s)
  /\ Member(r, K_grade).t = "string"
  /\ Member(r, K_grade).s \in GradeKeys

\* The validator has run on calcTrace.raw.
Validated == Answered /\ calcTrace.stage \in {"parse", "done"}

\* C6 (as stated): the validator returns exactly the raw records that pass
\* the specification's test, in input order.
C6_AsStated ==
  Validated =>
    LET accepted == SelectSeq(calcTrace.raw, SpecAccepts)
    IN (calcTrace.stage = "done" \/ accepted = <<>>)
         => /\ Len(calcTrace.courses) = Len(accepted)
            /\ \A i \in 1..Len(accepted) :
                 /\ calcTrace.courses[i].course_title = Trim(Member(accepted[i], K_course_title).s)
                 /\ calcTrace.courses[i].grade = Member(accepted[i], K_grade).s

\* C7 (as stated): every course that reaches the CGPA computation has a
\* non-empty trimmed course_title, credits >= 0 and a grade of the fixed set.
C7_AsStated ==
  (Answered /\ calcTrace.stage = "done") =>
    \A i \in 1..Len(calcTrace.courses) :
      /\ calcTrace.courses[i].course_title # <<>>
      /\ Trim(calcTrace.courses[i].course_title) = calcTrace.courses[i].course_title
      /\ calcTrace.courses[i].credits >= 0
      /\ calcTrace.courses[i].grade \in GradeKeys

\* C8 (as stated): when the text yields a record list of which no record
\* passes validation, the answer is a 400 error and never a cgpa, on the
\* strict path as on the fallback path.
C8_AsStated ==
  (Validated /\ calcTrace.raw # <<>> /\ SelectSeq(calcTrace.raw, IsValidCourse) = <<>>)
    => /\ calcRes.status = 400
       /\ ~calcRes.hasCgpa

\* The request failed at some stage: no data, decoding, decompression,
\* parsing, or validation (no record passes).
FailedAtSomeStage ==
  \/ calcTrace.stage \in {"missing", "gunzip", "parse"}
  \/ /\ calcTrace.stage = "done"
     /\ calcTrace.raw # <<>>
     /\ SelectSeq(calcTrace.raw, IsValidCourse) = <<>>

\* C9 (as stated): a request that lacks data or fails at any stage gets
\* status 400 with the one error body, and an error never comes with a cgpa.
C9_AsStated ==
  Answered =>
    /\ FailedAtSomeStage => calcRes = JsonError(400, MalformedData)
    /\ calcRes.error # "" => ~calcRes.hasCgpa /\ calcRes.status = 400

\* A document of at least one record, all passing the specification's test,
\* written with unquoted keys and unquoted values.
UnquotedRequest ==
  /\ Answered
  /\ calcReq.kind = "document"
  /\ calcReq.writer = "literal"
  /\ calcReq.records # <<>>
  /\ \A i \in 1..Len(calcReq.records) : SpecAccepts(calcReq.records[i])

\* C10 (as stated): a document written with unquoted keys and values gives
\* the same outcome and the same normalized courses as its strict JSON text,
\* for a bare array and for an object with a courses array.
C10_AsStated ==
  UnquotedRequest =>
    LET strict == parseCoursesFromText(DocumentText(calcReq.shape, "json", calcReq.records))
    IN /\ (calcTrace.stage = "done") = strict.ok
       /\ calcTrace.courses = strict.courses

(***************************************************************************)
(* The interactive report.  "react" is InteractiveReport.tsx (the /report  *)
(* page), "script" is the inline script of the page that /api/app returns. *)
(* A course is [id, credits, grade, exam_month]; the fields that no        *)
(* computation reads (codes, titles, types) are left out.  StudentData is  *)
(* [cgpa, courses], cgpa being the value carried by the payload.  What the *)
(* page displays is shown: per semester card its label, its GPA text, its  *)
(* course count and its rows (course ids); the overall CGPA text, the Avg  *)
(* GPA text, the course total and the semester total.  A GPA text is a     *)
(* toFixed(2) string, held in hundredths.  shown.cgpaFrom records whether  *)
(* the overall CGPA text was printed from the payload or from the courses. *)
(***************************************************************************)
MaxReportCourses == 2

L_Jul2024 == <<"J","u","l","-","2","0","2","4">>
L_Jan2025 == <<"J","a","n","-","2","0","2","5">>
SemesterLabels == {L_Jul2024, L_Jan2025}
ReportCredits == {30, 40}
ReportGrades == {G_S, G_B, G_P}
DeclaredCgpas == {Quot(725, 100)}

\* a + b and a / k on finite quotients.
QAdd(a, b) == Quot(a.n * b.d + b.n * a.d, a.d * b.d)
QDivInt(a, k) == Quot(a.n, a.d * k)

\* reduce((sum, x) => sum + x.gpa, 0)
RECURSIVE QSum(_)
QSum(qs) == IF qs = <<>> THEN Zero ELSE QAdd(QSum(SubSeq(qs, 1, Len(qs) - 1)), qs[Len(qs)])

\* const [month, year] = dateStr.split("-"); hasYear is false when year is
\* undefined.
SplitDash(s) ==
  LET d1 == IndexOf(s, <<"-">>, 1)
      d2 == IF d1 = 0 THEN 0 ELSE IndexOf(s, <<"-">>, d1 + 1)
  IN IF d1 = 0 THEN [mon |-> s, hasYear |-> FALSE, year |-> <<>>]
     ELSE [mon |-> SubSeq(s, 1, d1 - 1), hasYear |-> TRUE,
           year |-> SubSeq(s, d1 + 1, IF d2 = 0 THEN Len(s) ELSE d2 - 1)]

\* The keys Jan .. Dec of the month tables, in table order.
MonthNames ==
  << <<"J","a","n">>, <<"F","e","b">>, <<"M","a","r">>, <<"A","p","r">>,
     <<"M","a","y">>, <<"J","u","n">>, <<"J","u","l">>, <<"A","u","g">>,
     <<"S","e","p">>, <<"O","c","t">>, <<"N","o","v">>, <<"D","e","c">> >>

\* The position of mon in the month table, 0 when it is not a key.
MonthPosition(mon) ==
  IF \E i \in 1..12 : MonthNames[i] = mon
  THEN CHOOSE i \in 1..12 : MonthNames[i] = mon
  ELSE 0

\* parseInt(s): leading white space, an optional sign, the leading digits.
parseInt(s) ==
  LET t == TrimLeft(s)
      neg == t # <<>> /\ t[1] = "-"
      p == IF t # <<>> /\ (t[1] = "-" \/ t[1] = "+") THEN 2 ELSE 1
      k == DigitRun(t, p)
  IN IF k = 0 THEN [nan |-> TRUE, n |-> 0]
     ELSE [nan |-> FALSE, n |-> IF neg THEN -DigitsValue(t, p, k) ELSE DigitsValue(t, p, k)]

\* Number(s) for the year of a label: 0 for a blank string, the value of a
\* string of digits, NaN otherwise.
NumberOfYear(s) ==
  LET t == Trim(s)
  IN IF t = <<>> THEN [nan |-> FALSE, n |-> 0]
     ELSE IF DigitRun(t, 1) = Len(t) THEN [nan |-> FALSE, n |-> DigitsValue(t, 1, Len(t))]
     ELSE [nan |-> TRUE, n |-> 0]

\* new Date(year, monthIndex).getTime(), counted in months: [nan, t].
DateTime(year, monthIndex) == [nan |-> FALSE, t |-> year * 12 + monthIndex]
InvalidDate == [nan |-> TRUE, t |-> 0]

\* parseDate of /api/app: monthMap[month] - 1 is NaN for an unknown month.
parseDate_app(dateStr) ==
  LET parts == SplitDash(dateStr)
      year == IF parts.hasYear THEN parseInt(parts.year) ELSE [nan |-> TRUE, n |-> 0]
  IN IF year.nan \/ MonthPosition(parts.mon) = 0 THEN InvalidDate
     ELSE DateTime(year.n, MonthPosition(parts.mon) - 1)

\* parseDate of InteractiveReport: months[mon] ?? 0.
parseDate(m) ==
  LET parts == SplitDash(m)
      year == IF parts.hasYear THEN NumberOfYear(parts.year) ELSE [nan |-> TRUE, n |-> 0]
  IN IF year.nan THEN InvalidDate
     ELSE DateTime(year.n, IF MonthPosition(parts.mon) = 0 THEN 0 ELSE MonthPosition(parts.mon) - 1)

\* A mutation of DateDiff: the operands are swapped.
DateDiff_Swapped(a, b) == IF a.nan \/ b.nan THEN 0 ELSE b.t - a.t

\* The comparator (a, b) => parseDate(a) - parseDate(b); a NaN result counts
\* as 0.
DateDiff(a, b) == IF a.nan \/ b.nan THEN 0 ELSE a.t - b.t

\* Array.prototype.sort on [key, date] items: a stable insertion sort.
RECURSIVE InsertByDate(_, _)
InsertByDate(sorted, x) ==
  IF sorted = <<>> THEN <<x>>
  ELSE IF DateDiff(sorted[Len(sorted)].date, x.date) <= 0 THEN Append(sorted, x)
  ELSE Append(InsertByDate(SubSeq(sorted, 1, Len(sorted) - 1), x), sorted[Len(sorted)])

RECURSIVE SortByDate(_)
SortByDate(items) ==
  IF items = <<>> THEN <<>>
  ELSE InsertByDate(SortByDate(SubSeq(items, 1, Len(items) - 1)), items[Len(items)])

\* The keys of the Map filled from the courses: the distinct exam_month
\* labels in order of first occurrence.
MapKeys(courses) ==
  LET firsts == SelectSeq([i \in 1..Len(courses) |-> i],
                          LAMBDA i : \A j \in 1..(i - 1) :
                                       courses[j].exam_month # courses[i].exam_month)
  IN [k \in 1..Len(firsts) |-> courses[firsts[k]].exam_month]

\* A mutation of MapGet: every course, whatever its semester.
MapGet_All(courses, semester) == courses

\* map.get(semester)
MapGet(courses, semester) == SelectSeq(courses, LAMBDA c : c.exam_month = semester)

\* calculateSemesterGPA of InteractiveReport.
calculateSemesterGPA(courses) ==
  LET valid == NotP(courses)
  IN IF Len(valid) = 0 THEN Zero
     ELSE IF TotalCredits(valid) # 0
          THEN Quot(TotalGradePoints(valid), TotalCredits(valid))
          ELSE Zero

\* groupBySemester of InteractiveReport.
groupBySemester(courses) ==
  LET keys == MapKeys(courses)
      semesters == SortByDate([i \in 1..Len(keys) |-> [key |-> keys[i], date |-> parseDate(keys[i])]])
  IN [i \in 1..Len(semesters) |->
        [semester |-> semesters[i].key,
         courses |-> MapGet(courses, semesters[i].key),
         gpa |-> calculateSemesterGPA(MapGet(courses, semesters[i].key))]]

\* groupCoursesBySemester of /api/app.
groupCoursesBySemester(courses) ==
  LET keys == MapKeys(courses)
      sortedSemesters == SortByDate([i \in 1..Len(keys) |->
                                       [key |-> keys[i], date |-> parseDate_app(keys[i])]])
  IN [i \in 1..Len(sortedSemesters) |->
        [semester |-> sortedSemesters[i].key,
         courses |-> MapGet(courses, sortedSemesters[i].key),
         gpa |-> calculateSemesterGPA_app(MapGet(courses, sortedSemesters[i].key))]]

Ids(courses) == [i \in 1..Len(courses) |-> courses[i].id]

\* The semester cards printed from grouped semesters.
Cards(semesters) ==
  [i \in 1..Len(semesters) |->
     [semester |-> semesters[i].semester,
      gpa |-> ToFixed2(semesters[i].gpa),
      count |-> Len(semesters[i].courses),
      rows |-> Ids(semesters[i].courses)]]

Gpas(semesters) == [i \in 1..Len(semesters) |-> semesters[i].gpa]

\* The overall memo of InteractiveReport and the render of the component.
overall(data, semesters) ==
  LET valid == NotP(data.courses)
      points == TotalGradePoints(valid)
      credits == TotalCredits(valid)
  IN [cgpa |-> IF credits # 0 THEN Quot(points, credits) ELSE Zero,
      avgGpa |-> IF Len(semesters) # 0 THEN QDivInt(QSum(Gpas(semesters)), Len(semesters)) ELSE Zero,
      courses |-> Len(data.courses)]

InteractiveReport(data) ==
  Bind(groupBySemester(data.courses), LAMBDA semesters :
    Bind(overall(data, semesters), LAMBDA o :
      [semesters |-> Cards(semesters),
       cgpa |-> ToFixed2(o.cgpa),
       avg |-> ToFixed2(o.avgGpa),
       courses |-> o.courses,
       semesterCount |-> Len(semesters),
       cgpaFrom |-> "courses"]))

\* generateHTML of /api/app: the page as first served.  Without a semester
\* averageGPA is 0 / 0 and the page prints NaN, which -1 stands for.
generateHTML(studentData, semesterData) ==
  [semesters |-> Cards(semesterData),
   cgpa |-> ToFixed2(studentData.cgpa),
   avg |-> IF Len(semesterData) = 0 THEN -1
           ELSE ToFixed2(QDivInt(QSum(Gpas(semesterData)), Len(semesterData))),
   courses |-> Len(studentData.courses),
   semesterCount |-> Len(semesterData),
   cgpaFrom |-> "payload"]

\* recalculateGPAs of the inline script: the texts of the page dom after the
\* recalculation over data.  Only a semester with a course whose grade is
\* not P has its card updated and enters the totals.
SemesterStats(data, semester) ==
  Bind(NotP(MapGet(data.courses, semester)), LAMBDA validCourses :
    [semester |-> semester,
     counted |-> Len(validCourses) > 0,
     count |-> Len(MapGet(data.courses, semester)),
     semesterGradePoints |-> TotalGradePoints(validCourses),
     semesterCredits |-> TotalCredits(validCourses),
     semesterGPA |-> IF TotalCredits(validCourses) > 0
                     THEN Quot(TotalGradePoints(validCourses), TotalCredits(validCourses))
                     ELSE Zero])

UpdatedCard(card, stats) ==
  IF \E i \in 1..Len(stats) : stats[i].semester = card.semester /\ stats[i].counted
  THEN LET st == stats[CHOOSE i \in 1..Len(stats) : stats[i].semester = card.semester]
       IN [card EXCEPT !.gpa = ToFixed2(st.semesterGPA), !.count = st.count]
  ELSE card

recalculateGPAs(data, dom) ==
  Bind(MapKeys(data.courses), LAMBDA keys :
    Bind([i \in 1..Len(keys) |-> SemesterStats(data, keys[i])], LAMBDA stats :
      Bind(SelectSeq(stats, LAMBDA st : st.counted), LAMBDA counted :
        Bind([totalGradePoints |-> SumSeq([i \in 1..Len(counted) |-> counted[i].semesterGradePoints]),
              totalCredits |-> SumSeq([i \in 1..Len(counted) |-> counted[i].semesterCredits]),
              totalGPA |-> QSum([i \in 1..Len(counted) |-> counted[i].semesterGPA]),
              semesterCount |-> Len(counted)], LAMBDA t :
          [semesters |-> [i \in 1..Len(dom.semesters) |-> UpdatedCard(dom.semesters[i], stats)],
           cgpa |-> ToFixed2(IF t.totalCredits > 0
                             THEN Quot(t.totalGradePoints, t.totalCredits) ELSE Zero),
           avg |-> ToFixed2(IF t.semesterCount > 0
                            THEN QDivInt(t.totalGPA, t.semesterCount) ELSE Zero),
           courses |-> Len(data.courses),
           semesterCount |-> Len(keys),
           cgpaFrom |-> "courses"]))))

\* courses.map(c => c.id === courseId ? {...c, grade: newGrade} : c)
changeGrade(data, courseId, newGrade) ==
  [data EXCEPT !.courses =
     [i \in 1..Len(data.courses) |->
        IF data.courses[i].id = courseId
        THEN [data.courses[i] EXCEPT !.grade = newGrade]
        ELSE data.courses[i]]]

\* The data part of updateGrade: find gives the first course with the id.
updateGrade(data, courseId, newGrade) ==
  IF \E i \in 1..Len(data.courses) : data.courses[i].id = courseId
  THEN LET k == Min({i \in 1..Len(data.courses) : data.courses[i].id = courseId})
       IN [data EXCEPT !.courses[k].grade = newGrade]
  ELSE data

\* Math.max(...ids) + 1: Math.max of no argument is -Infinity, and so is
\* -Infinity + 1.
MinusInfinity == 0 - 1000000

newCourseId(courses) ==
  IF courses = <<>> \/ \E i \in 1..Len(courses) : courses[i].id = MinusInfinity
                         /\ \A j \in 1..Len(courses) : courses[j].id = MinusInfinity
  THEN MinusInfinity
  ELSE 1 + (CHOOSE m \in {courses[i].id : i \in 1..Len(courses)} :
              \A i \in 1..Len(courses) : courses[i].id <= m)

\* The validation of addCourse on the fields the model holds: credits that
\* parseFloat reads as NaN or 0 are refused (the other fields are filled in).
AddCourseRefused(credits) == credits = 0

\* The data part of addCourse: currentData.courses.push(newCourse).
addCourse(data, semester, credits, grade) ==
  [data EXCEPT !.courses =
     Append(@, [id |-> newCourseId(data.courses), credits |-> credits, grade |-> grade,
                exam_month |-> semester])]

\* tbody.appendChild(createCourseRow(newCourse, semester))
AppendedRow(dom, semester, id) ==
  [dom EXCEPT !.semesters =
     [i \in 1..Len(dom.semesters) |->
        IF dom.semesters[i].semester = semester
        THEN [dom.semesters[i] EXCEPT !.rows = Append(@, id)]
        ELSE dom.semesters[i]]]

\* The data part of removeCourse: filter(c => c.id.toString() !== courseId.toString())
removeCourse(data, courseId) ==
  [data EXCEPT !.courses = SelectSeq(@, LAMBDA c : c.id # courseId)]

\* document.querySelector('tr[data-course-id=...]').remove(): the first row
\* of the page with the id goes.
RemovedRow(dom, courseId) ==
  LET holds(i) == \E j \in 1..Len(dom.semesters[i].rows) : dom.semesters[i].rows[j] = courseId
      cards == {i \in 1..Len(dom.semesters) : holds(i)}
  IN IF cards = {} THEN dom
     ELSE LET c == Min(cards)
              rows == dom.semesters[c].rows
              k == Min({j \in 1..Len(rows) : rows[j] = courseId})
          IN [dom EXCEPT !.semesters[c].rows =
                SubSeq(rows, 1, k - 1) \o SubSeq(rows, k + 1, Len(rows))]

(***************************************************************************)
(* Report harness: a report is opened on a student of up to                *)
(* MaxReportCourses courses, then grades are edited and the report reset.  *)
(***************************************************************************)
ReportCourses(n) ==
  {[i \in 1..n |-> [id |-> i, credits |-> cr[i], grade |-> gr[i], exam_month |-> em[i]]] :
     cr \in [1..n -> ReportCredits], gr \in [1..n -> ReportGrades], em \in [1..n -> SemesterLabels]}

Students ==
  {[cgpa |-> cg, courses |-> cs] :
     cg \in DeclaredCgpas, cs \in UNION {ReportCourses(n) : n \in 1..MaxReportCourses}}

ShownIds == UNION {{shown.semesters[i].rows[j] : j \in 1..Len(shown.semesters[i].rows)} :
                     i \in 1..Len(shown.semesters)}

ReportInit ==
  /\ AggIdle /\ CodecIdle /\ PipeIdle /\ GroupIdle /\ PostIdle /\ AppIdle
  /\ PageIdle
  /\ HeapIdle
  /\ TextIdle
  /\ ReportIdle

\* /report: InteractiveReport is mounted with initial = the student.
OpenReport ==
  /\ reportPc = "idle"
  /\ \E student \in Students :
       /\ originalData' = student
       /\ currentData' = student
       /\ shown' = InteractiveReport(student)
  /\ reportVariant' = "react"
  /\ reportPc' = "rendered"
  /\ UNCHANGED reportRest

\* GET /api/app: the page is generated and its script started.
OpenApp ==
  /\ reportPc = "idle"
  /\ \E student \in Students :
       /\ originalData' = student
       /\ currentData' = student
       /\ shown' = generateHTML(student, groupCoursesBySemester(student.courses))
  /\ reportVariant' = "script"
  /\ reportPc' = "rendered"
  /\ UNCHANGED reportRest

\* A grade is selected in a row of the react report.
ChangeGrade ==
  /\ reportPc = "rendered"
  /\ reportVariant = "react"
  /\ \E courseId \in ShownIds, newGrade \in ReportGrades :
       /\ currentData' = changeGrade(currentData, courseId, newGrade)
       /\ shown' = InteractiveReport(changeGrade(currentData, courseId, newGrade))
  /\ UNCHANGED <<reportPc, reportVariant, originalData, reportRest>>

\* A grade is selected in a row of the /api/app page.
UpdateGrade ==
  /\ reportPc = "rendered"
  /\ reportVariant = "script"
  /\ \E courseId \in ShownIds, newGrade \in ReportGrades :
       /\ currentData' = updateGrade(currentData, courseId, newGrade)
       /\ shown' = recalculateGPAs(updateGrade(currentData, courseId, newGrade), shown)
  /\ UNCHANGED <<reportPc, reportVariant, originalData, reportRest>>

\* reset of the react report: setData(initial).
Reset ==
  /\ reportPc = "rendered"
  /\ reportVariant = "react"
  /\ currentData' = originalData
  /\ shown' = InteractiveReport(originalData)
  /\ UNCHANGED <<reportPc, reportVariant, originalData, reportRest>>

\* resetToOriginal of the /api/app page: the data is restored and the page
\* reloaded, which serves the first page again.
ResetToOriginal ==
  /\ reportPc = "rendered"
  /\ reportVariant = "script"
  /\ currentData' = originalData
  /\ shown' = generateHTML(originalData, groupCoursesBySemester(originalData.courses))
  /\ UNCHANGED <<reportPc, reportVariant, originalData, reportRest>>

ReportNext ==
  \/ OpenReport
  \/ OpenApp
  \/ ChangeGrade
  \/ UpdateGrade
  \/ Reset
  \/ ResetToOriginal

SpecReport == ReportInit /\ [][ReportNext]_vars

(***************************************************************************)
(* Claims on the interactive report.                                       *)
(***************************************************************************)
\* The weighted average over the courses whose grade is not P (0 when their
\* credits sum to 0), as a toFixed(2) text.
AverageWithoutP(courses) ==
  LET rest == SelectSeq(courses, LAMBDA c : c.grade # G_P)
      points == SumSeq([i \in 1..Len(rest) |-> PointsOrZero(rest[i].grade) * rest[i].credits])
      credits == SumSeq([i \in 1..Len(rest) |-> rest[i].credits])
  IN ToFixed2(IF credits = 0 THEN Zero ELSE Quot(points, credits))

\* C2 (as stated): in every state of the interactive report, at first render
\* and after any grade edits, every displayed semester GPA and the overall
\* CGPA computed from the courses are the weighted averages over the courses
\* whose grade is not P (a P course adds nothing to numerator or
\* denominator), while every course, P or not, stays listed and counted.
C2_AsStated ==
  reportPc = "rendered" =>
    /\ \A i \in 1..Len(shown.semesters) :
         shown.semesters[i].gpa =
           AverageWithoutP(MapGet(currentData.courses, shown.semesters[i].semester))
    /\ shown.cgpaFrom = "courses" => shown.cgpa = AverageWithoutP(currentData.courses)
    /\ \A i \in 1..Len(currentData.courses) : currentData.courses[i].id \in ShownIds
    /\ shown.courses = Len(currentData.courses)

(***************************************************************************)
(* Grouping harness: groupBySemester (InteractiveReport) and               *)
(* groupCoursesBySemester (/api/app) applied to bounded course lists.  A   *)
(* course is [id, credits, grade, exam_month], its id being its position   *)
(* in the list.  Neither function has a throw statement, and none of the   *)
(* calls it makes on a string label throws: a call always ends with a      *)
(* result, which groupOut.failed = FALSE records.                          *)
(***************************************************************************)
MaxGroupCourses == 3

L_Jan2024 == <<"J","a","n","-","2","0","2","4">>
L_Sept2024 == <<"S","e","p","t","-","2","0","2","4">>
GroupLabels == {L_Jan2024, L_Jul2024, L_Jan2025, L_Sept2024}

\* The credits and grade of the courses of the harness.
GroupKinds == {[credits |-> 30, grade |-> G_A], [credits |-> 40, grade |-> G_B],
               [credits |-> 30, grade |-> G_P]}

GroupLists ==
  UNION {{[i \in 1..n |-> [id |-> i, credits |-> kd[i].credits, grade |-> kd[i].grade,
                          exam_month |-> em[i]]] :
            kd \in [1..n -> GroupKinds], em \in [1..n -> GroupLabels]} :
         n \in 0..MaxGroupCourses}

GroupInit ==
  /\ AggIdle /\ CodecIdle /\ PipeIdle /\ ReportIdle /\ PostIdle /\ AppIdle
  /\ PageIdle
  /\ HeapIdle
  /\ TextIdle
  /\ groupPc = "ready"
  /\ groupFn = "none"
  /\ groupIn \in GroupLists
  /\ groupOut = NoGroups

CallGroupBySemester ==
  /\ groupPc = "ready"
  /\ groupPc' = "done"
  /\ groupFn' = "groupBySemester"
  /\ groupOut' = [failed |-> FALSE, groups |-> groupBySemester(groupIn)]
  /\ UNCHANGED <<groupIn, groupRest>>

CallGroupCoursesBySemester ==
  /\ groupPc = "ready"
  /\ groupPc' = "done"
  /\ groupFn' = "groupCoursesBySemester"
  /\ groupOut' = [failed |-> FALSE, groups |-> groupCoursesBySemester(groupIn)]
  /\ UNCHANGED <<groupIn, groupRest>>

GroupNext == CallGroupBySemester \/ CallGroupCoursesBySemester

SpecGroup == GroupInit /\ [][GroupNext]_vars

(***************************************************************************)
(* Claims on the grouping.                                                 *)
(***************************************************************************)
\* A label of the form Mon-Year: a month abbreviation of Jan .. Dec, a dash,
\* a year written in digits.
IsMonYear(label) ==
  LET dash == IndexOf(label, <<"-">>, 1)
  IN /\ dash > 1
     /\ MonthPosition(SubSeq(label, 1, dash - 1)) # 0
     /\ dash < Len(label)
     /\ DigitRun(label, dash + 1) = Len(label) - dash

\* The calendar rank of a Mon-Year label: 12 * year + month index.
CalendarRank(label) ==
  LET dash == IndexOf(label, <<"-">>, 1)
  IN 12 * DigitsValue(label, dash + 1, Len(label) - dash)
       + MonthPosition(SubSeq(label, 1, dash - 1))

\* C11: for a course list whose labels all have the form Mon-Year, the
\* groups come in strictly increasing calendar order of (year, month),
\* whatever the order of the courses in the input.
C11_CalendarOrder ==
  (groupPc = "done" /\ \A i \in 1..Len(groupIn) : IsMonYear(groupIn[i].exam_month))
    => \A i \in 1..Len(groupOut.groups), j \in 1..Len(groupOut.groups) :
         i < j => CalendarRank(groupOut.groups[i].semester)
                    < CalendarRank(groupOut.groups[j].semester)

\* Courses given in the order Jan-2025, Jul-2024 (the lexical order of the
\* labels) have been grouped, and Jul-2024 comes first in the result.
C11_Witness ==
  /\ groupPc = "done"
  /\ Len(groupIn) = 2
  /\ groupIn[1].exam_month = L_Jan2025
  /\ groupIn[2].exam_month = L_Jul2024
  /\ Len(groupOut.groups) = 2
  /\ groupOut.groups[1].semester = L_Jul2024
  /\ groupOut.groups[2].semester = L_Jan2025

\* The weighted average of the specification (as amended by C1): P records
\* removed; 0 when nothing remains or the remaining credits sum to 0.
WeightedAverage(courses) ==
  IF NotP(courses) = <<>> \/ TotalCredits(NotP(courses)) = 0
  THEN Zero ELSE WeightedFormula(courses)

\* The places <<group, position>> of the result that hold a given course.
PlacesOf(course, groups) ==
  {pl \in UNION {{<<g, k>> : k \in 1..Len(groups[g].courses)} : g \in 1..Len(groups)} :
     groups[pl[1]].courses[pl[2]] = course}

\* C12: the groups partition the input: every input course is in exactly one
\* group, under its own exam_month label; no group is empty, no two groups
\* share a label, the courses of a group keep their input order, and the gpa
\* of a group is the weighted average of exactly the courses of that group.
C12_Partition ==
  groupPc = "done" =>
    /\ \A i \in 1..Len(groupIn) : Cardinality(PlacesOf(groupIn[i], groupOut.groups)) = 1
    /\ SumSeq([g \in 1..Len(groupOut.groups) |-> Len(groupOut.groups[g].courses)])
         = Len(groupIn)
    /\ \A g \in 1..Len(groupOut.groups) :
         /\ groupOut.groups[g].courses # <<>>
         /\ \A k \in 1..Len(groupOut.groups[g].courses) :
              groupOut.groups[g].courses[k].exam_month = groupOut.groups[g].semester
         /\ \A k \in 1..(Len(groupOut.groups[g].courses) - 1) :
              groupOut.groups[g].courses[k].id < groupOut.groups[g].courses[k + 1].id
         /\ \A h \in 1..Len(groupOut.groups) :
              h # g => groupOut.groups[h].semester # groupOut.groups[g].semester
         /\ groupOut.groups[g].gpa = WeightedAverage(groupOut.groups[g].courses)

\* Three courses, the first and the third of one semester, the second of
\* another, have been grouped into two groups.
C12_Witness ==
  /\ groupPc = "done"
  /\ Len(groupIn) = 3
  /\ groupIn[1].exam_month = groupIn[3].exam_month
  /\ groupIn[1].exam_month # groupIn[2].exam_month
  /\ Len(groupOut.groups) = 2
  /\ \E g \in 1..2 : Len(groupOut.groups[g].courses) = 2 /\ groupOut.groups[g].gpa.n > 0

\* C13 (as stated): when a label has a month abbreviation that is not one of
\* Jan .. Dec, the grouping fails with an error and places that semester at
\* no position of a result.
C13_AsStated ==
  (groupPc = "done"
     /\ \E i \in 1..Len(groupIn) : MonthPosition(SplitDash(groupIn[i].exam_month).mon) = 0)
    => /\ groupOut.failed
       /\ \A g \in 1..Len(groupOut.groups) :
            MonthPosition(SplitDash(groupOut.groups[g].semester).mon) # 0

(***************************************************************************)
(* Further claims on the interactive report.                               *)
(***************************************************************************)
\* C14 (as stated): the overall CGPA the report shows, at first render and
\* after every edit, is the weighted average of the complete current course
\* list, whatever cgpa value the payload carries.
C14_AsStated ==
  reportPc = "rendered" => shown.cgpa = AverageWithoutP(currentData.courses)

(***************************************************************************)
(* POST /api/calculate: the encoded string comes in the JSON body (payload *)
(* or data) or in the query; a new-format payload (an array of full Course *)
(* objects) takes the fast path, anything else the path of GET.            *)
(***************************************************************************)
K_id == <<"i","d">>
K_course_type == <<"c","o","u","r","s","e","_","t","y","p","e">>
K_exam_month == <<"e","x","a","m","_","m","o","n","t","h">>
K_course_distribution == <<"c","o","u","r","s","e","_","d","i","s","t","r","i","b","u","t","i","o","n">>
K_payload == <<"p","a","y","l","o","a","d">>
K_data == <<"d","a","t","a">>

\* decodePayload of lib/decodePayload.ts: [ok, v]; ok is false when gunzipSync
\* or JSON.parse throws.
decodePayload(encoded) ==
  Bind(gunzipSync(FromBase64(decodePayloadPadded(encoded))), LAMBDA jsonBuf :
    IF ~jsonBuf.ok THEN [ok |-> FALSE, v |-> VUndef]
    ELSE JSONParse(Utf8Decode(jsonBuf.bytes)))

\* isCourseArray of lib/decodePayload.ts.
isCourseArray(x) ==
  /\ x.t = "array"
  /\ \A i \in 1..Len(x.a) :
       /\ x.a[i].t = "object"
       /\ Member(x.a[i], K_id).t = "number"
       /\ Member(x.a[i], K_course_code).t = "string"
       /\ Member(x.a[i], K_course_title).t = "string"
       /\ Member(x.a[i], K_course_type).t = "string"
       /\ Member(x.a[i], K_credits).t = "number"
       /\ Member(x.a[i], K_grade).t = "string"
       /\ Member(x.a[i], K_exam_month).t = "string"
       /\ Member(x.a[i], K_course_distribution).t = "string"

\* convertToLegacyFormat
convertToLegacyFormat(courses) ==
  [i \in 1..Len(courses) |->
     [course_title |-> Member(courses[i], K_course_title).s,
      credits |-> Member(courses[i], K_credits).n,
      grade |-> Member(courses[i], K_grade).s]]

\* a ?? b
Coalesce(a, b) == IF a.t = "null" \/ a.t = "undefined" THEN b ELSE a

MissingPayload == "Missing payload"
InvalidPayload == "Invalid encoded payload"

\* The encoded string POST reads: body?.payload ?? body?.data ?? null, then,
\* when that is null or empty, the query parameter payload or data.  query
\* is [payload, data], <<>> standing for an absent parameter.
PostEncoded(body, query) ==
  Bind(Coalesce(Coalesce(Member(body, K_payload), Member(body, K_data)), VNull),
       LAMBDA encoded :
    IF encoded.t = "string" /\ encoded.s # <<>> THEN encoded.s
    ELSE IF query.payload # <<>> THEN query.payload
    ELSE query.data)

\* POST of /api/calculate on a JSON body holding strings.
POST_calculate(body, query, wantPlain) ==
  Bind(PostEncoded(body, query), LAMBDA encoded :
    IF encoded = <<>> THEN JsonError(400, MissingPayload)
    ELSE
      Bind(decodePayload(encoded), LAMBDA data :
        IF data.ok /\ isCourseArray(data.v)
        THEN CgpaResponse(ToFixed2(calculateCGPA(convertToLegacyFormat(data.v.a))),
                          wantPlain)
        ELSE
          Bind(gunzipSync(base64UrlDecode(encoded)), LAMBDA decompressedData :
            IF ~decompressedData.ok THEN JsonError(400, InvalidPayload)
            ELSE
              Bind(parseCoursesFromText(Utf8Decode(decompressedData.bytes)), LAMBDA parsed :
                IF ~parsed.ok THEN JsonError(400, InvalidPayload)
                ELSE CgpaResponse(ToFixed2(calculateCGPA(parsed.courses)), wantPlain)))))

(***************************************************************************)
(* POST harness: one payload is sent to GET /api/calculate?data= and then  *)
(* to POST /api/calculate, in the body field payload, in the body field    *)
(* data, or in the query.  The payloads encode documents of full Course    *)
(* objects and of the three-field records of the legacy format, or are     *)
(* broken.                                                                 *)
(***************************************************************************)
MaxPostCourses == 2

FullCourse(id, title, credits, grade) ==
  Rec(<< <<K_id, VNum(id)>>, <<K_course_code, VStr(<<"C">>)>>,
         <<K_course_title, VStr(title)>>, <<K_course_type, VStr(<<"T">>)>>,
         <<K_credits, VNum(credits)>>, <<K_grade, VStr(grade)>>,
         <<K_exam_month, VStr(L_Jan2025)>>, <<K_course_distribution, VStr(<<"D">>)>> >>)

FullA == FullCourse(10, <<"V">>, 40, G_A)
FullS == FullCourse(20, <<"W">>, 30, G_S)
FullUnknownGrade == FullCourse(30, <<"Z">>, 40, <<"X">>)

PostRecords == {FullA, FullS, FullUnknownGrade, RecMinimal}
PostFields == {"payload", "data", "query"}

PostBody(field, data) ==
  IF field = "payload" THEN VObj(<< <<K_payload, VStr(data)>> >>)
  ELSE IF field = "data" THEN VObj(<< <<K_data, VStr(data)>> >>)
  ELSE VNull

PostQuery(field, data) ==
  [payload |-> <<>>, data |-> IF field = "query" THEN data ELSE <<>>]

PostInit ==
  /\ AggIdle /\ CodecIdle /\ PipeIdle /\ ReportIdle /\ GroupIdle /\ AppIdle
  /\ PageIdle
  /\ HeapIdle
  /\ TextIdle
  /\ PostIdle

\* The client sends a payload to GET /api/calculate?data=.
SendGet ==
  /\ postPc = "idle"
  /\ \E plain \in BOOLEAN :
       \E req \in {DocumentRequest(shape, "json", records, plain) :
                     shape \in Shapes, records \in SeqsUpTo(PostRecords, MaxPostCourses)}
                    \cup {BrokenRequest(kind, plain) : kind \in BrokenKinds} :
         /\ postReq' = req
         /\ postGet' = GET_calculate(req.hasData, req.data, req.plain).res
  /\ postPc' = "got"
  /\ UNCHANGED <<postRes, postRest>>

\* The client sends the same payload to POST /api/calculate.
SendPost ==
  /\ postPc = "got"
  /\ \E field \in PostFields :
       postRes' = POST_calculate(PostBody(field, postReq.data), PostQuery(field, postReq.data),
                                 postReq.plain)
  /\ postPc' = "compared"
  /\ UNCHANGED <<postReq, postGet, postRest>>

PostNext == SendGet \/ SendPost

SpecPost == PostInit /\ [][PostNext]_vars

\* C15 (as stated): for every encoded payload POST /api/calculate returns the
\* status and the cgpa that GET /api/calculate?data= returns for it.
C15_AsStated ==
  postPc = "compared" =>
    /\ postRes.status = postGet.status
    /\ postRes.hasCgpa = postGet.hasCgpa
    /\ postRes.cgpa = postGet.cgpa

(***************************************************************************)
(* GET /api/app: base64url -> gunzip -> JSON.parse, with salvagePseudoJson *)
(* as the second attempt, then validation, coercion and the report page.   *)
(***************************************************************************)
K_cgpa == <<"c","g","p","a">>
K_credits_registered == <<"c","r","e","d","i","t","s","_","r","e","g","i","s","t","e","r","e","d">>
K_credits_earned == <<"c","r","e","d","i","t","s","_","e","a","r","n","e","d">>

\* text.replace(regex, callback) of a global regex: matches holds, for each
\* position where the regex matches, [start, last, rep]; the scan takes the
\* leftmost match at or after from and resumes after its last character.
RECURSIVE Splice(_, _, _)
Splice(text, matches, from) ==
  LET next == {m \in matches : m.start >= from}
  IN IF next = {} THEN SubSeq(text, from, Len(text))
     ELSE LET m == CHOOSE m \in next : \A o \in next : m.start <= o.start
          IN SubSeq(text, from, m.start - 1) \o m.rep \o Splice(text, matches, m.last + 1)

NoMatch == [ok |-> FALSE, start |-> 0, last |-> 0, rep |-> <<>>]

\* /([,{]\s*)([A-Za-z_][A-Za-z0-9_]*)\s*:/ tried at p, replaced by $1"$2":
KeyMatchAt(s, p) ==
  LET k == SkipSpace(s, p + 1)
      m == IdentRun(s, k)
      colon == SkipSpace(s, k + m)
  IN IF /\ (s[p] = "," \/ s[p] = "{")
        /\ k <= Len(s) /\ IsIdentStart(s[k])
        /\ At(s, colon, ":")
     THEN [ok |-> TRUE, start |-> p, last |-> colon,
           rep |-> SubSeq(s, p, k - 1) \o <<"\"">> \o SubSeq(s, k, k + m - 1) \o <<"\"", ":">>]
     ELSE NoMatch

QuoteKeys(s) ==
  Splice(s, {KeyMatchAt(s, p) : p \in {q \in 1..Len(s) : KeyMatchAt(s, q).ok}}, 1)

\* /^-?[0-9]+(\.[0-9]+)?$/.test(s)
IsSignedDecimal(s) ==
  IsPlainDecimal(IF s # <<>> /\ s[1] = "-" THEN Tail(s) ELSE s)

IsLiteralWord(s) ==
  s \in {<<"t","r","u","e">>, <<"f","a","l","s","e">>, <<"n","u","l","l">>}

\* [^",\[\]{}]
IsBareValueChar(c) == c \notin {"\"", ",", "[", "]", "{", "}"}

\* The callback of the second replace of /api/app's salvagePseudoJson on the
\* match prefix + value.
QuotedBareValue(prefix, value) ==
  LET trimmedValue == Trim(value)
  IN IF \/ StartsWith(trimmedValue, "\"") \/ StartsWith(trimmedValue, "'")
        \/ IsSignedDecimal(trimmedValue)
        \/ IsLiteralWord(trimmedValue)
        \/ StartsWith(trimmedValue, "{") \/ StartsWith(trimmedValue, "[")
     THEN prefix \o value
     ELSE prefix \o QuoteString(trimmedValue)

\* /(:\s*)([^",\[\]{}]+?)(?=\s*[,}\]])/ tried at the colon at p.  With the
\* white space taken whole, the lazy value runs from the first character
\* after it to the last one before the white space that precedes the next
\* "," "}" or "]"; a quote, "[" or "{" before that ends the attempt.  When
\* the white space is followed at once by "," "}" or "]", the value is its
\* last blank.
BareValueMatchAt(s, p) ==
  LET k == SkipSpace(s, p + 1)
      stops == {q \in k..Len(s) : ~IsBareValueChar(s[q])}
      r == IF stops = {} THEN Len(s) + 1 ELSE Min(stops)
      closes == r <= Len(s) /\ s[r] \in {",", "}", "]"}
      e == CHOOSE q \in k..(r - 1) : ~IsSpace(s[q]) /\ \A j \in (q + 1)..(r - 1) : IsSpace(s[j])
  IN IF s[p] # ":" \/ ~closes THEN NoMatch
     ELSE IF r > k
     THEN [ok |-> TRUE, start |-> p, last |-> e,
           rep |-> QuotedBareValue(SubSeq(s, p, k - 1), SubSeq(s, k, e))]
     ELSE IF k > p + 1
     THEN [ok |-> TRUE, start |-> p, last |-> k - 1,
           rep |-> QuotedBareValue(SubSeq(s, p, k - 2), SubSeq(s, k - 1, k - 1))]
     ELSE NoMatch

QuoteBareValues(s) ==
  Splice(s, {BareValueMatchAt(s, p) : p \in {q \in 1..Len(s) : BareValueMatchAt(s, q).ok}}, 1)

\* salvagePseudoJson of /api/app
salvagePseudoJson_app(s) == QuoteBareValues(QuoteKeys(s))

\* !v
Falsy(v) ==
  \/ v.t = "undefined" \/ v.t = "null"
  \/ v.t = "number" /\ v.n = 0
  \/ v.t = "string" /\ v.s = <<>>
  \/ v.t = "boolean" /\ v.n = 0

\* typeof v === 'string' ? parseFloat(v) : v, on a number or a numeric string
CoercedNumber(v) == IF v.t = "string" THEN ParseFloat(v.s).n ELSE v.n

\* The two parse attempts of lines 987 to 993: [ok, v, strict, salvaged].
\* salvagePseudoJson runs only in the catch of the strict JSON.parse.
ParseStudentData(jsonString) ==
  Bind(JSONParse(jsonString), LAMBDA first :
    IF first.ok
    THEN [ok |-> TRUE, v |-> first.v, strict |-> "ok", salvaged |-> FALSE]
    ELSE Bind(JSONParse(salvagePseudoJson_app(jsonString)), LAMBDA second :
           [ok |-> second.ok, v |-> second.v, strict |-> "failed", salvaged |-> TRUE]))

\* The throws of lines 996 to 1003, and the TypeError of reading a property
\* of null (of studentData, or of a course in the map of line 1018).
InvalidStudentData(studentData) ==
  \/ studentData.t = "null"
  \/ Member(studentData, K_courses).t # "array"
  \/ Falsy(Member(studentData, K_id))
  \/ /\ Falsy(Member(studentData, K_cgpa))
     /\ ~(Member(studentData, K_cgpa).t = "number" /\ Member(studentData, K_cgpa).n = 0)
  \/ \E i \in 1..Len(Member(studentData, K_courses).a) :
       Member(studentData, K_courses).a[i].t = "null"

\* processedData (lines 1006 to 1024) as the report holds it, for courses
\* that carry id, credits, grade and exam_month.
ProcessedData(studentData) ==
  [cgpa |-> Quot(CoercedNumber(Member(studentData, K_cgpa)), 10),
   courses |-> [i \in 1..Len(Member(studentData, K_courses).a) |->
      Bind(Member(studentData, K_courses).a[i], LAMBDA course :
        [id |-> Member(course, K_id).n,
         credits |-> CoercedNumber(Member(course, K_credits)),
         grade |-> Member(course, K_grade).s,
         exam_month |-> Member(course, K_exam_month).s])]]

\* The comparator of the sort of the semester keys (lines 107 to 117, and
\* lines 46 to 51 of InteractiveReport) runs when there are two keys or
\* more, and dateStr.split throws on a key that is not a string (the
\* exam_month of a course that lacks it).
GroupThrows(studentData) ==
  LET courses == Member(studentData, K_courses).a
      keys == {Member(courses[i], K_exam_month) : i \in 1..Len(courses)}
  IN Cardinality(keys) >= 2 /\ \E k \in keys : k.t # "string"

\* generateHTML throws at line 385 on a credits_earned or credits_registered
\* that is undefined or null (.toString() of it).
HtmlThrows(studentData) ==
  \/ Member(studentData, K_credits_earned).t \in {"undefined", "null"}
  \/ Member(studentData, K_credits_registered).t \in {"undefined", "null"}

Page(status, page, parsed, html) ==
  [status |-> status, page |-> page, strict |-> parsed.strict,
   salvaged |-> parsed.salvaged, html |-> html]

NotParsed == [strict |-> "none", salvaged |-> FALSE]

\* GET of /api/app
GET_app(hasData, encodedData) ==
  IF ~hasData \/ encodedData = <<>>
  THEN Page(400, "Missing Data Parameter", NotParsed, NoShown)
  ELSE
    Bind(gunzipSync(base64UrlDecode(encodedData)), LAMBDA decompressedData :
      IF ~decompressedData.ok
      THEN Page(400, "Decompression Error", NotParsed, NoShown)
      ELSE
        Bind(ParseStudentData(Utf8Decode(decompressedData.bytes)), LAMBDA parsed :
          IF ~parsed.ok \/ InvalidStudentData(parsed.v)
          THEN Page(400, "Data Parsing Error", parsed, NoShown)
          ELSE IF GroupThrows(parsed.v) \/ HtmlThrows(parsed.v)
          THEN Page(500, "Server Error", parsed, NoShown)
          ELSE
            Bind(ProcessedData(parsed.v), LAMBDA studentData :
              Page(200, "report", parsed,
                   generateHTML(studentData,
                                groupCoursesBySemester(studentData.courses))))))

(***************************************************************************)
(* /api/app harness: a client opens /api/app?data= with a payload it built *)
(* itself: a document written as strict JSON or as a literal, or a payload *)
(* broken at one stage.  A document is a bare array of courses, an object  *)
(* with a courses array whose optional fields follow one of the profiles,  *)
(* or a value of another shape.                                            *)
(***************************************************************************)
MaxAppCourses == 2

AppCourse(id, title, credits, grade, exam_month) ==
  Rec(<< <<K_id, VNum(id)>>, <<K_course_title, VStr(title)>>, <<K_credits, credits>>,
         <<K_grade, VStr(grade)>>, <<K_exam_month, VStr(exam_month)>> >>)

AppCourses ==
  {AppCourse(10, <<"V">>, VNum(40), G_A, L_Jul2024),
   AppCourse(20, <<"W">>, VStr(<<"3">>), G_B, L_Jan2025)}

\* The optional fields of a student object: each one absent, a number or a
\* numeric string.
Absent == VUndef
Profiles ==
  LET full == [id |-> VNum(70), cgpa |-> VNum(75), credits_registered |-> VNum(200),
               credits_earned |-> VNum(160)]
  IN {full,
      [id |-> VStr(<<"7">>), cgpa |-> VStr(<<"7",".","5">>),
       credits_registered |-> VStr(<<"2","0">>), credits_earned |-> VStr(<<"1","6">>)],
      [full EXCEPT !.id = Absent], [full EXCEPT !.id = VNum(0)],
      [full EXCEPT !.cgpa = Absent], [full EXCEPT !.cgpa = VNum(0)],
      [full EXCEPT !.credits_registered = Absent],
      [full EXCEPT !.credits_registered = VNum(0)],
      [full EXCEPT !.credits_earned = Absent], [full EXCEPT !.credits_earned = VNum(0)],
      [id |-> Absent, cgpa |-> Absent, credits_registered |-> Absent,
       credits_earned |-> Absent]}

Optional(key, v) == IF v = Absent THEN <<>> ELSE << <<key, v>> >>

StudentObject(profile, courses) ==
  VObj(Optional(K_id, profile.id) \o Optional(K_credits_registered, profile.credits_registered)
       \o Optional(K_credits_earned, profile.credits_earned)
       \o Optional(K_cgpa, profile.cgpa) \o << <<K_courses, VArr(courses)>> >>)

\* Values of a shape the validation refuses: no courses array.
Shapeless == {VObj(<< <<<<"a">>, VNum(10)>> >>), VNull, VNum(50), VArr(<<VNum(10)>>)}

AppRequest(kind, hasData, data, doc, writer) ==
  [kind |-> kind, hasData |-> hasData, data |-> data, doc |-> doc, writer |-> writer]

WrittenRequest(kind, doc, writer) ==
  AppRequest(kind, TRUE,
             EncodeText(IF writer = "json" THEN Stringify(doc) ELSE WriteLiteral(doc)),
             doc, writer)

AppRequests ==
  {WrittenRequest("array", VArr(courses), writer) :
     courses \in SeqsUpTo(AppCourses, MaxAppCourses), writer \in Writers}
  \cup {WrittenRequest("object", StudentObject(profile, courses), writer) :
          profile \in Profiles, courses \in SeqsUpTo(AppCourses, MaxAppCourses),
          writer \in Writers}
  \cup {WrittenRequest("shapeless", doc, writer) : doc \in Shapeless, writer \in Writers}
  \cup {AppRequest(BrokenRequest(kind, FALSE).kind, BrokenRequest(kind, FALSE).hasData,
                   BrokenRequest(kind, FALSE).data, VUndef, "none") : kind \in BrokenKinds}

AppInit ==
  /\ AggIdle /\ CodecIdle /\ PipeIdle /\ ReportIdle /\ GroupIdle /\ PostIdle
  /\ PageIdle
  /\ HeapIdle
  /\ TextIdle
  /\ AppIdle

\* The browser opens /api/app?data=.
GetApp ==
  /\ appPc = "idle"
  /\ \E req \in AppRequests :
       /\ appReq' = req
       /\ appRes' = GET_app(req.hasData, req.data)
  /\ appPc' = "answered"
  /\ UNCHANGED appRest

AppNext == GetApp

SpecApp == AppInit /\ [][AppNext]_vars

\* C16 (as stated): /api/app accepts a bare array of courses and an object
\* with a courses array whatever optional field is absent, a number or a
\* numeric string: such a payload is never answered with an error.
SentCourses ==
  IF appReq.kind = "array" THEN appReq.doc.a
  ELSE IF appReq.kind = "object" THEN Member(appReq.doc, K_courses).a
  ELSE <<>>

C16_AsStated ==
  appPc = "answered" /\ SentCourses # <<>> => appRes.status = 200

\* C20 (as stated): when the strict JSON.parse of /api/app succeeds and the
\* parsed value fails the structure validation, salvagePseudoJson is tried
\* as the second attempt before the error page is answered.
C20_AsStated ==
  appPc = "answered" /\ appRes.strict = "ok" /\ appRes.page = "Data Parsing Error"
    => appRes.salvaged

C25_AsStated ==
  Answered /\ calcRes.status = 200 /\ calcRes.hasCgpa =>
    calcRes.cgpa >= 0 /\ calcRes.cgpa <= 1000

(***************************************************************************)
(* Editing harness: the /api/app page is opened on a student of up to      *)
(* MaxEditCourses courses; grades are edited, courses added and removed,   *)
(* and the page reset.  The page never holds more than MaxEditCourses + 1  *)
(* rows.                                                                   *)
(***************************************************************************)
MaxEditCourses == 1

\* The credits typed in the add-course form, one refused, one accepted, and
\* the grades selected in it.
NewCredits == {0, 30}
NewGrades == {G_B, G_P}

\* The students of the page: courses of 4 credits numbered from 1.
EditCourses(n) ==
  {[i \in 1..n |-> [id |-> i, credits |-> 40, grade |-> gr[i], exam_month |-> em[i]]] :
     gr \in [1..n -> ReportGrades], em \in [1..n -> SemesterLabels]}

EditStudents ==
  {[cgpa |-> cg, courses |-> cs] :
     cg \in DeclaredCgpas, cs \in UNION {EditCourses(n) : n \in 1..MaxEditCourses}}

\* GET /api/app: the page is generated and its script started.
OpenPage ==
  /\ reportPc = "idle"
  /\ \E student \in EditStudents :
       /\ originalData' = student
       /\ currentData' = student
       /\ shown' = generateHTML(student, groupCoursesBySemester(student.courses))
  /\ reportVariant' = "script"
  /\ reportPc' = "rendered"
  /\ UNCHANGED reportRest

\* The add-course form of a semester card of the /api/app page is submitted.
AddCourse ==
  /\ reportPc = "rendered"
  /\ reportVariant = "script"
  /\ newCourseId(currentData.courses) <= MaxEditCourses + 2
  /\ SumSeq([i \in 1..Len(shown.semesters) |-> Len(shown.semesters[i].rows)])
       <= MaxEditCourses
  /\ \E i \in 1..Len(shown.semesters), credits \in NewCredits, grade \in NewGrades :
       /\ currentData' =
            IF AddCourseRefused(credits) THEN currentData
            ELSE addCourse(currentData, shown.semesters[i].semester, credits, grade)
       /\ shown' =
            IF AddCourseRefused(credits) THEN shown
            ELSE recalculateGPAs(
                   addCourse(currentData, shown.semesters[i].semester, credits, grade),
                   AppendedRow(shown, shown.semesters[i].semester,
                               newCourseId(currentData.courses)))
  /\ UNCHANGED <<reportPc, reportVariant, originalData, reportRest>>

\* The remove button of a row of the /api/app page is clicked and confirmed.
RemoveCourse ==
  /\ reportPc = "rendered"
  /\ reportVariant = "script"
  /\ \E courseId \in ShownIds :
       /\ currentData' = removeCourse(currentData, courseId)
       /\ shown' = recalculateGPAs(removeCourse(currentData, courseId),
                                   RemovedRow(shown, courseId))
  /\ UNCHANGED <<reportPc, reportVariant, originalData, reportRest>>

EditNext ==
  \/ OpenPage
  \/ UpdateGrade
  \/ AddCourse
  \/ RemoveCourse
  \/ ResetToOriginal

SpecEdit == ReportInit /\ [][EditNext]_vars

\* C18 (as stated): after any sequence of grade changes, additions and
\* removals, the GPA displayed for every semester is the weighted average
\* of the current courses of that semester.
C18_AsStated ==
  reportPc = "rendered" =>
    \A i \in 1..Len(shown.semesters) :
      shown.semesters[i].gpa =
        AverageWithoutP(SelectSeq(currentData.courses,
                                  LAMBDA c : c.exam_month = shown.semesters[i].semester))

\* C27 (as stated): re-selecting the current grade of a course of the
\* /api/app page, an edit that leaves every grade as it is, leaves the
\* displayed Avg GPA as it is.
C27_AsStated ==
  [][UpdateGrade /\ currentData' = currentData => shown'.avg = shown.avg]_vars

\* C23 (as stated): after any sequence of addCourse, removeCourse and
\* updateGrade on a page opened with pairwise distinct course ids, the ids
\* of the current courses are pairwise distinct.
C23_AsStated ==
  reportPc = "rendered" =>
    \A i, j \in 1..Len(currentData.courses) :
      currentData.courses[i].id = currentData.courses[j].id => i = j

(***************************************************************************)
(* salvagePseudoJson of /api/calculate, which no code of the route calls,  *)
(* and the order of the parsing strategies.                                *)
(***************************************************************************)
\* /(:\s*)([A-Za-z_][A-Za-z0-9_]*)(?=\s*[,}\]])/ tried at the colon at p and
\* its callback: the identifier is quoted unless it is true, false or null.
WordValueMatchAt(s, p) ==
  LET k == SkipSpace(s, p + 1)
      m == IdentRun(s, k)
      stop == SkipSpace(s, k + m)
      val == SubSeq(s, k, k + m - 1)
  IN IF /\ s[p] = ":"
        /\ k <= Len(s) /\ IsIdentStart(s[k])
        /\ stop <= Len(s) /\ s[stop] \in {",", "}", "]"}
     THEN [ok |-> TRUE, start |-> p, last |-> k + m - 1,
           rep |-> IF IsLiteralWord(val) THEN SubSeq(s, p, k + m - 1)
                   ELSE SubSeq(s, p, k - 1) \o <<"\"">> \o val \o <<"\"">>]
     ELSE NoMatch

\* [A-Za-z0-9 _\-\/&()+]
IsPhraseChar(c) ==
  IsIdentChar(c) \/ c \in {" ", "-", "/", "&", "(", ")", "+"}

\* /(:\s*)([A-Za-z][A-Za-z0-9 _\-\/&()+]*[A-Za-z)])(?=\s*[,}\]])/ tried at the
\* colon at p and its callback.  The value starts at a letter, runs over
\* phrase characters up to the "," "}" or "]" that ends the run, and ends at
\* the last character before the white space in front of it, which must be a
\* letter or ")" other than the first character.
PhraseValueMatchAt(s, p) ==
  LET k == SkipSpace(s, p + 1)
      stops == {q \in (k + 1)..Len(s) : ~IsPhraseChar(s[q])}
      r == IF stops = {} THEN Len(s) + 1 ELSE Min(stops)
      e == CHOOSE q \in k..(r - 1) : ~IsSpace(s[q]) /\ \A j \in (q + 1)..(r - 1) : IsSpace(s[j])
      val == SubSeq(s, k, e)
  IN IF /\ s[p] = ":"
        /\ k <= Len(s) /\ IsIdentStart(s[k]) /\ s[k] # "_"
        /\ r <= Len(s) /\ s[r] \in {",", "}", "]"}
        /\ e > k
        /\ (IsIdentStart(s[e]) /\ s[e] # "_") \/ s[e] = ")"
     THEN [ok |-> TRUE, start |-> p, last |-> e,
           rep |-> IF IsLiteralWord(val) THEN SubSeq(s, p, e)
                   ELSE SubSeq(s, p, k - 1) \o QuoteString(Trim(val))]
     ELSE NoMatch

\* salvagePseudoJson of /api/calculate: keys, single-word values, phrases.
salvagePseudoJson(str) ==
  Bind(QuoteKeys(str), LAMBDA keyed :
    Bind(Splice(keyed, {WordValueMatchAt(keyed, p) :
                          p \in {q \in 1..Len(keyed) : WordValueMatchAt(keyed, q).ok}}, 1),
         LAMBDA worded :
      Splice(worded, {PhraseValueMatchAt(worded, p) :
                        p \in {q \in 1..Len(worded) : PhraseValueMatchAt(worded, q).ok}}, 1)))

\* The record list of a parsed value: the array itself, or its courses
\* array; null for any other shape.
RecordList(v) ==
  IF v.t = "array" THEN v
  ELSE IF Member(v, K_courses).t = "array" THEN Member(v, K_courses)
  ELSE VNull

\* C19 (as stated): the parser of /api/calculate tries strict JSON, then
\* salvage repair, then structural extraction, the first success giving the
\* record list: the strict record list when strict parsing yields an array
\* or an object with a courses array; otherwise the record list of the
\* salvaged text when that parses to such a value; structural extraction
\* only when both failed.
C19_AsStated ==
  Answered /\ calcTrace.stage \in {"parse", "done"} =>
    Bind(JSONParse(calcTrace.text), LAMBDA strict :
      IF strict.ok /\ RecordList(strict.v).t = "array"
      THEN calcTrace.path = "strict" /\ calcTrace.raw = RecordList(strict.v).a
      ELSE
        Bind(JSONParse(salvagePseudoJson(calcTrace.text)), LAMBDA salvaged :
          IF salvaged.ok /\ RecordList(salvaged.v).t = "array"
          THEN calcTrace.raw = RecordList(salvaged.v).a
          ELSE calcTrace.path = "fallback"))

(***************************************************************************)
(* Salvage harness: salvagePseudoJson of /api/app and of /api/calculate    *)
(* applied to the text of an object literal of up to MaxPairs key/value    *)
(* pairs, { key: value, key: value }, the keys bare or quoted.             *)
(***************************************************************************)
MaxPairs == 2

\* The values of the pairs: quoted, a literal word, a signed decimal, a
\* nested array, a bare word, a phrase, a bare text with a backslash, and a
\* quoted value that holds a colon followed by a word and a comma.
V_Quoted == <<"\"","s","\"">>
V_True == <<"t","r","u","e">>
V_Signed == <<"-","1",".","5">>
V_Nested == <<"[","1","]">>
V_Word == <<"X">>
V_Phrase == <<"a"," ","b">>
V_Backslash == <<"a","\\","b">>
V_QuotedColon == <<"\"","x",":"," ","y",","," ","z","\"">>

PairValues ==
  {V_Quoted, V_True, V_Signed, V_Nested, V_Word, V_Phrase, V_Backslash, V_QuotedColon}

Pairs == {[key |-> <<"k">>, quoted |-> q, value |-> v] : q \in BOOLEAN, v \in PairValues}

\* { key: value, key: value }
PairsText(pairs) ==
  <<"{">> \o JoinTexts([i \in 1..Len(pairs) |->
                          (IF pairs[i].quoted THEN QuoteString(pairs[i].key)
                           ELSE pairs[i].key) \o <<":", " ">> \o pairs[i].value],
                       <<",", " ">>)
          \o <<"}">>

TextInit ==
  /\ AggIdle /\ CodecIdle /\ PipeIdle /\ ReportIdle /\ GroupIdle /\ PostIdle /\ AppIdle
  /\ PageIdle
  /\ HeapIdle
  /\ textPc = "ready"
  /\ textFn = "none"
  /\ textIn \in SeqsUpTo(Pairs, MaxPairs) \ {<<>>}
  /\ textOut = NoTextOut

CallSalvageApp ==
  /\ textPc = "ready"
  /\ textPc' = "done"
  /\ textFn' = "app"
  /\ textOut' = [ok |-> TRUE, text |-> salvagePseudoJson_app(PairsText(textIn)),
                 records |-> <<>>]
  /\ UNCHANGED <<textIn, textRest>>

CallSalvageCalculate ==
  /\ textPc = "ready"
  /\ textPc' = "done"
  /\ textFn' = "calculate"
  /\ textOut' = [ok |-> TRUE, text |-> salvagePseudoJson(PairsText(textIn)),
                 records |-> <<>>]
  /\ UNCHANGED <<textIn, textRest>>

SalvageNext == CallSalvageApp \/ CallSalvageCalculate

SpecSalvage == TextInit /\ [][SalvageNext]_vars

\* The value the claim gives for a value of the text.
ClaimedValue(v) ==
  IF \/ StartsWith(v, "\"")
     \/ IsLiteralWord(v)
     \/ IsSignedDecimal(v)
     \/ StartsWith(v, "{") \/ StartsWith(v, "[")
  THEN v
  ELSE QuoteString(v)

ClaimedText(pairs) ==
  <<"{">> \o JoinTexts([i \in 1..Len(pairs) |->
                          QuoteString(pairs[i].key) \o <<":", " ">>
                            \o ClaimedValue(pairs[i].value)],
                       <<",", " ">>)
          \o <<"}">>

\* C21 (as stated): the salvage pass of /api/app quotes every bare key and
\* leaves a value unchanged when it is quoted, true, false or null, a signed
\* decimal, or begins with { or [, and otherwise replaces it by its quoted
\* JSON-escaped form; nothing inside a quoted value is rewritten.
C21_AsStated ==
  textPc = "done" /\ textFn = "app" => textOut.text = ClaimedText(textIn)

(***************************************************************************)
(* Extraction harness: structural extraction applied to bounded texts made *)
(* of a head, a colon, an opening bracket, a body of pieces, a closing     *)
(* bracket and a tail, each part present or not.                           *)
(***************************************************************************)
MaxPieces == 2

\* What precedes the colon: nothing, courses, or courses after an array
\* that holds a segment and a colon of its own.
Heads ==
  {<<>>, K_courses, <<"[","{","z",":","0","}","]",",">> \o K_courses}

\* What follows the closing bracket: nothing, or a second courses array.
Tails == {<<>>, <<",">> \o K_courses \o <<":","[","{","g",":","5","}","]">>}

\* The pieces of a body: a segment, a segment holding an array, a segment
\* holding a segment, a segment left open, a stray closing brace, an array,
\* an opening bracket left open, and a comma.
BodyPieces ==
  {<<"{","a",":","1","}">>, <<"{","b",":","[","2","]","}">>,
   <<"{","c",":","{","d",":","3","}","}">>, <<"{","e",":","4">>, <<"}">>,
   <<"[","f","]">>, <<"[">>, <<",">>}

ExtractTexts ==
  {head \o colon \o open \o JoinTexts(body, <<>>) \o close \o tail :
     head \in Heads, colon \in {<<>>, <<":">>}, open \in {<<>>, <<"[">>},
     body \in SeqsUpTo(BodyPieces, MaxPieces), close \in {<<>>, <<"]">>},
     tail \in Tails}

ExtractInit ==
  /\ AggIdle /\ CodecIdle /\ PipeIdle /\ ReportIdle /\ GroupIdle /\ PostIdle /\ AppIdle
  /\ PageIdle
  /\ HeapIdle
  /\ textPc = "ready"
  /\ textFn = "none"
  /\ textIn \in ExtractTexts
  /\ textOut = NoTextOut

\* What a call of either copy of the function leaves: whether it returned,
\* and each segment with the record made of it.
Extracted(out) ==
  [ok |-> out.ok, text |-> <<>>,
   records |-> [i \in 1..Len(out.items) |->
                  [segment |-> out.items[i], record |-> out.courses[i]]]]

CallExtract ==
  /\ textPc = "ready"
  /\ textPc' = "done"
  /\ textFn' = "route"
  /\ textOut' = Extracted(extractCoursesStructurally(textIn))
  /\ UNCHANGED <<textIn, textRest>>

CallExtractScript ==
  /\ textPc = "ready"
  /\ textPc' = "done"
  /\ textFn' = "script"
  /\ textOut' = Extracted(extractCoursesStructurally_script(textIn))
  /\ UNCHANGED <<textIn, textRest>>

ExtractNext == CallExtract \/ CallExtractScript

SpecExtract == ExtractInit /\ [][ExtractNext]_vars

\* The number of characters c among s[lo..hi].
CountOf(s, c, lo, hi) == Cardinality({i \in lo..hi : i <= Len(s) /\ s[i] = c})

\* The least position after lo where as many characters close as open
\* over s[lo..position]; 0 when none.
MatchOf(s, open, close, lo) ==
  LET ends == {j \in (lo + 1)..Len(s) :
                 CountOf(s, open, lo, j) = CountOf(s, close, lo, j)}
  IN IF ends = {} THEN 0 ELSE Min(ends)

\* The top-level {...} segments of s from position from on, in order.
RECURSIVE ClaimedSegments(_, _)
ClaimedSegments(s, from) ==
  LET start == IndexOf(s, <<"{">>, from)
      end == MatchOf(s, "{", "}", start)
  IN IF start = 0 \/ end = 0 THEN <<>>
     ELSE <<SubSeq(s, start, end)>> \o ClaimedSegments(s, end + 1)

\* The places the claim names in a text: [courses, colon, open, close],
\* each 0 when missing.
ClaimedPlaces(text) ==
  LET courses == IndexOf(text, K_courses, 1)
      colon == IF courses = 0 THEN 0 ELSE IndexOf(text, <<":">>, courses)
      open == IF colon = 0 THEN 0 ELSE IndexOf(text, <<"[">>, colon)
      close == IF open = 0 THEN 0 ELSE MatchOf(text, "[", "]", open)
  IN [courses |-> courses, colon |-> colon, open |-> open, close |-> close]

\* What the claim gives for a text: an error when a place is missing, else
\* the segments of the array between the brackets.
ClaimedExtraction(text) ==
  LET at == ClaimedPlaces(text)
  IN IF at.close = 0 THEN [ok |-> FALSE, segments |-> <<>>]
     ELSE [ok |-> TRUE,
           segments |-> ClaimedSegments(SubSeq(text, at.open + 1, at.close - 1), 1)]

\* The outcome of the call is the one the claim gives.
AsClaimed ==
  LET claimed == ClaimedExtraction(textIn)
  IN /\ textOut.ok = claimed.ok
     /\ Len(textOut.records) = Len(claimed.segments)
     /\ \A i \in 1..Len(claimed.segments) :
          textOut.records[i].segment = claimed.segments[i]

CoerceThrows(obj) ==
  \/ obj.t \notin {"object", "array"}
  \/ Member(obj, K_courses).t # "array"
  \/ \E i \in 1..Len(Member(obj, K_courses).a) :
       Member(obj, K_courses).a[i].t \in {"null", "undefined"}

\* ReportPage of report/page.tsx.  redirect() answers 307 with the place to
\* go to; coerceStudentData runs outside the try, and so does the render,
\* so what they throw is an unhandled exception, answered 500.
ReportPage(hasData, dataParam) ==
  IF ~hasData \/ dataParam = <<>>
  THEN Page(307, "/calculator", NotParsed, NoShown)
  ELSE
    Bind(decodePayload(dataParam), LAMBDA parsed :
      IF ~parsed.ok
      THEN Page(307, "/calculator?error=decode", [strict |-> "failed", salvaged |-> FALSE],
                NoShown)
      ELSE IF CoerceThrows(parsed.v) \/ GroupThrows(parsed.v)
      THEN Page(500, "unhandled exception", [strict |-> "ok", salvaged |-> FALSE], NoShown)
      ELSE Page(200, "report", [strict |-> "ok", salvaged |-> FALSE],
                InteractiveReport(ProcessedData(parsed.v))))

\* A course without exam_month, and the students that hold it.
NoExamCourse ==
  Rec(<< <<K_id, VNum(30)>>, <<K_course_title, VStr(<<"U">>)>>, <<K_credits, VNum(20)>>,
         <<K_grade, VStr(G_S)>> >>)

FullProfile ==
  [id |-> VNum(70), cgpa |-> VNum(75), credits_registered |-> VNum(200),
   credits_earned |-> VNum(160)]

NoExamRequests ==
  {WrittenRequest("noexam", StudentObject(FullProfile, courses), writer) :
     courses \in {cs \in SeqsUpTo(AppCourses \cup {NoExamCourse}, MaxAppCourses) :
                    \E i \in 1..Len(cs) : cs[i] = NoExamCourse},
     writer \in Writers}

EntryRequests == AppRequests \cup NoExamRequests

\* The browser opens /api/app?data=.
GetAppEntry ==
  /\ appPc = "idle"
  /\ \E req \in EntryRequests :
       /\ appReq' = req
       /\ appRes' = GET_app(req.hasData, req.data)
  /\ appPc' = "answered"
  /\ UNCHANGED appRest

\* The browser opens /report?data=.
GetReport ==
  /\ appPc = "idle"
  /\ \E req \in EntryRequests :
       /\ appReq' = req
       /\ appRes' = ReportPage(req.hasData, req.data)
  /\ appPc' = "reported"
  /\ UNCHANGED appRest

EntryNext == GetAppEntry \/ GetReport

SpecEntry == AppInit /\ [][EntryNext]_vars

\* The payloads the claim is about: none, one that fails to decode,
\* decompress or parse, a document that is not an object with a courses
\* array, and a student whose courses lack exam_month.
FailingPayload ==
  appReq.kind \in BrokenKinds \cup {"array", "shapeless", "noexam"}

\* C24 (as stated): a full-report entry point given such a payload answers
\* with a 400 error page or a redirect to /calculator, never with the report
\* and never with a 5xx or an unhandled exception.
C24_AsStated ==
  appPc \in {"answered", "reported"} /\ FailingPayload =>
    \/ appRes.status = 400
    \/ appRes.status = 307 /\ appRes.page \in {"/calculator", "/calculator?error=decode"}

(***************************************************************************)
(* Averages harness: each weighted average of the repository applied to    *)
(* the bounded lists of courses that can reach it.  /api/calculate keeps   *)
(* the grades of the table only; the manual calculator also keeps credits  *)
(* greater than 0 only; /api/app and the report take what the payload      *)
(* holds.                                                                  *)
(***************************************************************************)
AvgCredits == {0 - 30, 0, 40}
AvgGrades == {G_S, G_B, G_P, <<"X">>}
AvgCourse == [course_title : AggTitles, credits : AvgCredits, grade : AvgGrades]

\* calculateCGPA of the calculator page: gradePoints[grade] * credits with
\* no || 0, so a grade outside the table makes the sum NaN.
calculateCGPA_page(courseList) ==
  LET validCourses == NotP(courseList)
      totalCredits == TotalCredits(validCourses)
  IN IF Len(validCourses) = 0 THEN Zero
     ELSE IF ~(totalCredits > 0) THEN Zero
     ELSE IF \E i \in 1..Len(validCourses) : validCourses[i].grade \notin GradeKeys
     THEN NaN
     ELSE Quot(TotalGradePoints(validCourses), totalCredits)

\* The cgpa of the overall memo of InteractiveReport.
OverallCgpa(courses) ==
  overall([cgpa |-> Zero, courses |-> courses], <<>>).cgpa

AvgFns == {"calculateCGPA", "calculateSemesterGPA", "InteractiveReport.calculateSemesterGPA",
           "InteractiveReport.overall", "calculator.calculateCGPA"}

\* The lists that can reach an implementation.
Reaches(fn, courses) ==
  CASE fn = "calculateCGPA" -> \A i \in 1..Len(courses) : courses[i].grade \in GradeKeys
    [] fn = "calculator.calculateCGPA" ->
         \A i \in 1..Len(courses) : courses[i].grade \in GradeKeys /\ courses[i].credits > 0
    [] OTHER -> TRUE

AverageBy(fn, courses) ==
  CASE fn = "calculateCGPA" -> calculateCGPA(courses)
    [] fn = "calculateSemesterGPA" -> calculateSemesterGPA_app(courses)
    [] fn = "InteractiveReport.calculateSemesterGPA" -> calculateSemesterGPA(courses)
    [] fn = "InteractiveReport.overall" -> OverallCgpa(courses)
    [] OTHER -> calculateCGPA_page(courses)

AvgInit ==
  /\ CodecIdle /\ PipeIdle /\ ReportIdle /\ GroupIdle /\ PostIdle /\ AppIdle
  /\ PageIdle
  /\ HeapIdle
  /\ TextIdle
  /\ aggPc = "ready"
  /\ aggFn = AggNone
  /\ aggIn \in SeqsUpTo(AvgCourse, MaxAggCourses)
  /\ aggOut = Zero

AverageCalculate ==
  /\ aggPc = "ready"
  /\ Reaches("calculateCGPA", aggIn)
  /\ aggPc' = "done"
  /\ aggFn' = "calculateCGPA"
  /\ aggOut' = AverageBy("calculateCGPA", aggIn)
  /\ UNCHANGED <<aggIn, aggRest>>

AverageApp ==
  /\ aggPc = "ready"
  /\ Reaches("calculateSemesterGPA", aggIn)
  /\ aggPc' = "done"
  /\ aggFn' = "calculateSemesterGPA"
  /\ aggOut' = AverageBy("calculateSemesterGPA", aggIn)
  /\ UNCHANGED <<aggIn, aggRest>>

AverageReportSemester ==
  /\ aggPc = "ready"
  /\ Reaches("InteractiveReport.calculateSemesterGPA", aggIn)
  /\ aggPc' = "done"
  /\ aggFn' = "InteractiveReport.calculateSemesterGPA"
  /\ aggOut' = AverageBy("InteractiveReport.calculateSemesterGPA", aggIn)
  /\ UNCHANGED <<aggIn, aggRest>>

AverageReportOverall ==
  /\ aggPc = "ready"
  /\ Reaches("InteractiveReport.overall", aggIn)
  /\ aggPc' = "done"
  /\ aggFn' = "InteractiveReport.overall"
  /\ aggOut' = AverageBy("InteractiveReport.overall", aggIn)
  /\ UNCHANGED <<aggIn, aggRest>>

AveragePage ==
  /\ aggPc = "ready"
  /\ Reaches("calculator.calculateCGPA", aggIn)
  /\ aggPc' = "done"
  /\ aggFn' = "calculator.calculateCGPA"
  /\ aggOut' = AverageBy("calculator.calculateCGPA", aggIn)
  /\ UNCHANGED <<aggIn, aggRest>>

AvgNext ==
  \/ AverageCalculate
  \/ AverageApp
  \/ AverageReportSemester
  \/ AverageReportOverall
  \/ AveragePage

SpecAverages == AvgInit /\ [][AvgNext]_vars

\* C26 (as stated): the value an implementation returns for a list is the
\* value every other implementation returns for it, when the list can reach
\* that implementation too.
C26_AsStated ==
  aggPc = "done" =>
    \A fn \in AvgFns : Reaches(fn, aggIn) => aggOut = AverageBy(fn, aggIn)

(***************************************************************************)
(* Object harness: the objects of the two reports and the references that  *)
(* originalData / initial and currentData / data hold to them.  heap[a] is *)
(* the object at address a: a student (ref is the address of its courses   *)
(* array), an array (items are the addresses of its courses) or a course.  *)
(* decoded is the course list first decoded, by value.                     *)
(***************************************************************************)
MaxHeapCourses == 2
MaxHeap == 12

HeapGrades == {G_S, G_P}

HeapLists ==
  UNION {{[i \in 1..n |-> [id |-> i, grade |-> gr[i]]] : gr \in [1..n -> HeapGrades]} :
           n \in 1..MaxHeapCourses}

StudentObject_heap(ref) ==
  [kind |-> "student", ref |-> ref, items |-> <<>>, id |-> 0, grade |-> <<>>]
ArrayObject(items) ==
  [kind |-> "array", ref |-> 0, items |-> items, id |-> 0, grade |-> <<>>]
CourseObject(id, grade) ==
  [kind |-> "course", ref |-> 0, items |-> <<>>, id |-> id, grade |-> grade]

\* The addresses of the courses of the student at address ref, and the
\* course list of that student by value.
CourseRefs(h, ref) == h[h[ref].ref].items

CourseList(h, ref) ==
  [i \in 1..Len(CourseRefs(h, ref)) |->
     [id |-> h[CourseRefs(h, ref)[i]].id, grade |-> h[CourseRefs(h, ref)[i]].grade]]

\* A student object built from a course list by value: its courses, their
\* array and the student are new objects.  [heap, ref]
NewStudent(h, list) ==
  [heap |-> h \o [i \in 1..Len(list) |-> CourseObject(list[i].id, list[i].grade)]
              \o <<ArrayObject([i \in 1..Len(list) |-> Len(h) + i]),
                   StudentObject_heap(Len(h) + Len(list) + 1)>>,
   ref |-> Len(h) + Len(list) + 2]

\* A mutation of DeepCopy: the reference itself is returned.
DeepCopy_Alias(h, ref) == [heap |-> h, ref |-> ref]

\* JSON.parse(JSON.stringify(originalData)): the text holds the value, and
\* parsing it builds new objects.
DeepCopy(h, ref) == NewStudent(h, CourseList(h, ref))

HeapInit ==
  /\ AggIdle /\ CodecIdle /\ PipeIdle /\ ReportIdle /\ GroupIdle /\ PostIdle /\ AppIdle
  /\ PageIdle
  /\ TextIdle
  /\ HeapIdle

\* The script of the /api/app page starts: originalData is the object of
\* the literal printed in the page, currentData a copy of it.
StartScript ==
  /\ heapPc = "idle"
  /\ \E list \in HeapLists :
       /\ decoded' = list
       /\ initialRef' = NewStudent(<<>>, list).ref
       /\ heap' = DeepCopy(NewStudent(<<>>, list).heap, NewStudent(<<>>, list).ref).heap
       /\ dataRef' = DeepCopy(NewStudent(<<>>, list).heap, NewStudent(<<>>, list).ref).ref
  /\ heapVariant' = "script"
  /\ heapPc' = "open"
  /\ UNCHANGED heapRest

\* InteractiveReport is mounted: useState(initial) makes data the object
\* initial refers to.
MountReport ==
  /\ heapPc = "idle"
  /\ \E list \in HeapLists :
       /\ decoded' = list
       /\ heap' = NewStudent(<<>>, list).heap
       /\ initialRef' = NewStudent(<<>>, list).ref
       /\ dataRef' = NewStudent(<<>>, list).ref
  /\ heapVariant' = "react"
  /\ heapPc' = "open"
  /\ UNCHANGED heapRest

\* updateGrade of the script: course.grade = newGrade on the first course
\* of currentData with the id.
ScriptUpdateGrade ==
  /\ heapPc # "idle" /\ heapVariant = "script"
  /\ \E i \in 1..Len(CourseRefs(heap, dataRef)), newGrade \in HeapGrades :
       /\ \A j \in 1..(i - 1) :
            heap[CourseRefs(heap, dataRef)[j]].id # heap[CourseRefs(heap, dataRef)[i]].id
       /\ heap' = [heap EXCEPT ![CourseRefs(heap, dataRef)[i]].grade = newGrade]
  /\ heapPc' = "edited"
  /\ UNCHANGED <<heapVariant, initialRef, dataRef, decoded, heapRest>>

\* addCourse of the script: currentData.courses.push(newCourse).
ScriptAddCourse ==
  /\ heapPc # "idle" /\ heapVariant = "script"
  /\ Len(heap) + 1 <= MaxHeap
  /\ \E grade \in HeapGrades :
       heap' = [Append(heap, CourseObject(newCourseId(CourseList(heap, dataRef)), grade))
                  EXCEPT ![heap[dataRef].ref].items = Append(@, Len(heap) + 1)]
  /\ heapPc' = "edited"
  /\ UNCHANGED <<heapVariant, initialRef, dataRef, decoded, heapRest>>

\* removeCourse of the script: currentData.courses is assigned the array
\* that filter returns.
ScriptRemoveCourse ==
  /\ heapPc # "idle" /\ heapVariant = "script"
  /\ Len(heap) + 1 <= MaxHeap
  /\ \E i \in 1..Len(CourseRefs(heap, dataRef)) :
       heap' = [Append(heap, ArrayObject(SelectSeq(CourseRefs(heap, dataRef),
                   LAMBDA a : heap[a].id # heap[CourseRefs(heap, dataRef)[i]].id)))
                  EXCEPT ![dataRef].ref = Len(heap) + 1]
  /\ heapPc' = "edited"
  /\ UNCHANGED <<heapVariant, initialRef, dataRef, decoded, heapRest>>

\* resetToOriginal of the script: currentData is a copy of originalData,
\* then the page is reloaded and its script starts again on the literal the
\* server prints for the same address.
ScriptReset ==
  /\ heapPc # "idle" /\ heapVariant = "script"
  /\ initialRef' = NewStudent(<<>>, decoded).ref
  /\ heap' = DeepCopy(NewStudent(<<>>, decoded).heap, NewStudent(<<>>, decoded).ref).heap
  /\ dataRef' = DeepCopy(NewStudent(<<>>, decoded).heap, NewStudent(<<>>, decoded).ref).ref
  /\ heapPc' = "reset"
  /\ UNCHANGED <<heapVariant, decoded, heapRest>>

\* changeGrade of InteractiveReport: {...prev, courses: prev.courses.map(c =>
\* c.id === courseId ? {...c, grade: newGrade} : c)}: a new student, a new
\* array, a new object for each course with the id, the other courses shared.
MappedRefs(h, ref, courseId) ==
  LET refs == CourseRefs(h, ref)
      hit(i) == h[refs[i]].id = courseId
      rank(i) == Cardinality({j \in 1..i : hit(j)})
  IN [i \in 1..Len(refs) |-> IF hit(i) THEN Len(h) + rank(i) ELSE refs[i]]

ReactChangeGrade ==
  /\ heapPc # "idle" /\ heapVariant = "react"
  /\ Len(heap) + Len(CourseRefs(heap, dataRef)) + 2 <= MaxHeap
  /\ \E i \in 1..Len(CourseRefs(heap, dataRef)), newGrade \in HeapGrades :
       LET courseId == heap[CourseRefs(heap, dataRef)[i]].id
           hits == SelectSeq(CourseRefs(heap, dataRef), LAMBDA a : heap[a].id = courseId)
           copies == [k \in 1..Len(hits) |-> CourseObject(courseId, newGrade)]
       IN /\ heap' = heap \o copies
                        \o <<ArrayObject(MappedRefs(heap, dataRef, courseId)),
                             StudentObject_heap(Len(heap) + Len(hits) + 1)>>
          /\ dataRef' = Len(heap) + Len(hits) + 2
  /\ heapPc' = "edited"
  /\ UNCHANGED <<heapVariant, initialRef, decoded, heapRest>>

\* reset of InteractiveReport: setData(initial).
ReactReset ==
  /\ heapPc # "idle" /\ heapVariant = "react"
  /\ dataRef' = initialRef
  /\ heapPc' = "reset"
  /\ UNCHANGED <<heapVariant, heap, initialRef, decoded, heapRest>>

HeapNext ==
  \/ StartScript
  \/ MountReport
  \/ ScriptUpdateGrade
  \/ ScriptAddCourse
  \/ ScriptRemoveCourse
  \/ ScriptReset
  \/ ReactChangeGrade
  \/ ReactReset

SpecHeap == HeapInit /\ [][HeapNext]_vars

\* C28: whatever grade changes, additions and removals have been made, the
\* course list that originalData / initial refers to is the one first
\* decoded, and right after a reset so is the current course list.
C28_OriginalKept ==
  heapPc # "idle" =>
    /\ CourseList(heap, initialRef) = decoded
    /\ heapPc = "reset" => CourseList(heap, dataRef) = decoded

\* C28 witness: the react report has been reset after a grade change (the
\* change has left its new objects on the heap), and holds the decoded list.
C28_Witness ==
  /\ heapPc = "reset"
  /\ heapVariant = "react"
  /\ Len(heap) > Len(decoded) + 2
  /\ dataRef = initialRef
  /\ CourseList(heap, dataRef) = decoded

(***************************************************************************)
(* Manual calculator harness: the calculator page (the home page holds the *)
(* same handlers).  The user fills the course form, adds and removes       *)
(* courses, resets the calculator and imports a payload.  Date.now() is    *)
(* the clock, which stands still or advances between two additions.        *)
(***************************************************************************)
MaxManualCourses == 2
MaxClock == 2

\* What the fields of the form can hold; the credits field is a number
\* input, whose value is empty or a valid number.
FormTitles == {<<>>, <<" ">>, <<"X">>}
FormCredits == {<<>>, <<"0">>, <<"-","1">>, <<"3">>}
FormGrades == {<<>>, G_S, G_P}
Forms == [title : FormTitles, credits : FormCredits, grade : FormGrades]

Cgpa(q) == [null |-> FALSE, q |-> q]

\* A mutation of ManualCourseRejected: credits that are not greater than 0
\* pass.
ManualCourseRejected_AnyCredits(form) ==
  \/ Trim(form.title) = <<>>
  \/ form.credits = <<>>
  \/ form.grade = <<>>

\* The three returns of addCourse before the course is built.
ManualCourseRejected(form) ==
  \/ Trim(form.title) = <<>>
  \/ form.credits = <<>> \/ (~ParseFloat(form.credits).nan /\ ParseFloat(form.credits).n <= 0)
  \/ form.grade = <<>>

\* The payloads pasted for an import: a student with one course, a bare
\* array, a text that is not gzip, and blanks.
ManualPayloads ==
  {EncodeText(Stringify(StudentObject(FullProfile, <<NoExamCourse>>))),
   EncodeText(Stringify(VArr(<<NoExamCourse>>))),
   <<"!", "!", "!", "!">>,
   <<" ", " ">>}

\* What the try block of handleAutomatedImport of the calculator page throws.
ImportThrows(toProcess) ==
  \/ ~decodePayload(toProcess).ok
  \/ CoerceThrows(decodePayload(toProcess).v)
  \/ GroupThrows(decodePayload(toProcess).v)

\* The pasted payloads on which it throws.
ThrowingPayloads == {value \in ManualPayloads : ImportThrows(Trim(value))}

ManualInit ==
  /\ AggIdle /\ CodecIdle /\ PipeIdle /\ ReportIdle /\ GroupIdle /\ PostIdle /\ AppIdle
  /\ TextIdle
  /\ HeapIdle
  /\ PageIdle

\* onChange of the fields of the form.
TypeCourse ==
  /\ \E form \in Forms : currentCourse' = form
  /\ UNCHANGED <<manualCourses, manualCgpa, clock, isLoading, importSuccess, importError,
                 importedCgpa, pending, started, lastData, pageRest>>

\* addCourse, from the Add button or the Enter key, which both need the
\* three fields filled.
ManualAddCourse ==
  /\ currentCourse.title # <<>> /\ currentCourse.credits # <<>> /\ currentCourse.grade # <<>>
  /\ Len(manualCourses) < MaxManualCourses
  /\ \E now \in {clock, clock + 1} :
       /\ now <= MaxClock
       /\ clock' = now
       /\ manualCourses' =
            IF ManualCourseRejected(currentCourse) THEN manualCourses
            ELSE Append(manualCourses,
                        [id |-> now, title |-> Trim(currentCourse.title),
                         credits |-> ParseFloat(currentCourse.credits).n,
                         grade |-> currentCourse.grade])
       /\ manualCgpa' =
            IF ManualCourseRejected(currentCourse) THEN manualCgpa
            ELSE Cgpa(calculateCGPA_page(
                   Append(manualCourses,
                          [id |-> now, title |-> Trim(currentCourse.title),
                           credits |-> ParseFloat(currentCourse.credits).n,
                           grade |-> currentCourse.grade])))
  /\ currentCourse' = IF ManualCourseRejected(currentCourse) THEN currentCourse
                      ELSE EmptyCourse
  /\ UNCHANGED <<isLoading, importSuccess, importError, importedCgpa, pending, started,
                 lastData, pageRest>>

\* removeCourse, from the button of a listed course.
ManualRemoveCourse ==
  /\ \E i \in 1..Len(manualCourses) :
       LET updatedCourses ==
             SelectSeq(manualCourses, LAMBDA course : course.id # manualCourses[i].id)
       IN /\ manualCourses' = updatedCourses
          /\ manualCgpa' = IF Len(updatedCourses) > 0
                           THEN Cgpa(calculateCGPA_page(updatedCourses)) ELSE NoCgpa
  /\ UNCHANGED <<currentCourse, clock, isLoading, importSuccess, importError, importedCgpa,
                 pending, started, lastData, pageRest>>

\* resetCalculator, from the Reset button, enabled while a course is listed.
ResetCalculator ==
  /\ Len(manualCourses) > 0
  /\ manualCourses' = <<>>
  /\ manualCgpa' = NoCgpa
  /\ currentCourse' = EmptyCourse
  /\ importSuccess' = FALSE
  /\ importError' = "null"
  /\ UNCHANGED <<clock, isLoading, importedCgpa, pending, started, lastData, pageRest>>

\* handleAutomatedImport of the calculator page, which runs to its end
\* without a pause: blanks return at once; a payload that decodes to a
\* student empties the manual list; any other sets the error.
ImportStudent ==
  /\ \E value \in ManualPayloads :
       IF Trim(value) = <<>>
       THEN UNCHANGED <<manualCourses, manualCgpa, importSuccess, importError>>
       ELSE IF value \in ThrowingPayloads
       THEN /\ importError' = "Error processing data. Please check your input."
            /\ importSuccess' = FALSE
            /\ UNCHANGED <<manualCourses, manualCgpa>>
       ELSE /\ importError' = "null"
            /\ importSuccess' = TRUE
            /\ manualCourses' = <<>>
            /\ manualCgpa' = NoCgpa
  /\ UNCHANGED <<currentCourse, clock, isLoading, importedCgpa, pending, started, lastData,
                 pageRest>>

ManualNext ==
  \/ TypeCourse
  \/ ManualAddCourse
  \/ ManualRemoveCourse
  \/ ResetCalculator
  \/ ImportStudent

SpecManual == ManualInit /\ [][ManualNext]_vars

\* cgpa is null exactly when no course is listed, and otherwise is
\* calculateCGPA of the listed courses, whose credits are all greater than 0.
ManualCgpaKept ==
  /\ manualCgpa.null <=> manualCourses = <<>>
  /\ ~manualCgpa.null => manualCgpa.q = calculateCGPA_page(manualCourses)
  /\ \A i \in 1..Len(manualCourses) : manualCourses[i].credits > 0

\* C29: after any sequence of addCourse, removeCourse, resetCalculator and
\* import, cgpa is null exactly when the manual list is empty and otherwise
\* equals calculateCGPA of the list; an addCourse rejected by validation
\* leaves the list and cgpa unchanged, so every listed course has credits
\* greater than 0.
C29_ManualCgpa ==
  /\ []ManualCgpaKept
  /\ [][ManualAddCourse /\ ManualCourseRejected(currentCourse)
         => UNCHANGED <<manualCourses, manualCgpa>>]_vars

\* C29 witness: two courses are listed, one of grade P, after a form with
\* credits 0 has been typed and refused, and cgpa is 10.
C29_Witness ==
  /\ Len(manualCourses) = 2
  /\ \E i \in 1..2 : manualCourses[i].grade = G_P
  /\ manualCgpa = Cgpa(Quot(10, 1))
  /\ currentCourse.credits = <<"0">> /\ currentCourse.title = <<"X">>
  /\ currentCourse.grade = G_S

(***************************************************************************)
(* Import harness: the automated import of the home page.  An import is    *)
(* started by the button (enabled while nothing loads) or by a change of   *)
(* the data parameter of the address; it waits for the answer of            *)
(* /api/calculate, then for the answer that decodeImportedData fetches.     *)
(* pending holds the imports that wait, lastData the text last set as       *)
(* encodedData, which is the payload of the import started last.           *)
(***************************************************************************)
MaxImports == 3

\* The payloads imported: one course of grade A, one of grade B, and a text
\* that is not gzip.
ImportPayloads ==
  {EncodeText(Stringify(VArr(<<RecMinimal>>))),
   EncodeText(Stringify(VArr(<<RecCoded>>))),
   <<"!", "!", "!", "!">>}

\* The answer of GET /api/calculate?data= for each payload.
ImportResult == [data \in ImportPayloads |-> GET_calculate(TRUE, data, FALSE).res]

\* The first part of handleAutomatedImport, up to the first await.
BeginImport(data) ==
  /\ started < MaxImports
  /\ started' = started + 1
  /\ lastData' = data
  /\ isLoading' = TRUE
  /\ importError' = "null"
  /\ importSuccess' = FALSE
  /\ pending' = pending \cup {[n |-> started + 1, data |-> data, phase |-> 1]}
  /\ UNCHANGED <<manualCourses, manualCgpa, currentCourse, clock, importedCgpa, pageRest>>

\* A payload is pasted and the button clicked.
ClickImport ==
  /\ ~isLoading
  /\ \E data \in ImportPayloads : BeginImport(data)

\* The data parameter of the address changes: the effect sets encodedData
\* and starts an import, whatever is loading.
UrlImport ==
  \E qp \in ImportPayloads : qp # lastData /\ BeginImport(qp)

\* The answer of /api/calculate arrives: the imported CGPA is set and the
\* second fetch starts, or the error is set and the import ends.
FirstResponse ==
  /\ \E p \in pending :
       /\ p.phase = 1
       /\ IF ImportResult[p.data].status = 200
          THEN /\ importedCgpa' = Cgpa(Quot(ImportResult[p.data].cgpa, 100))
               /\ pending' = (pending \ {p}) \cup {[p EXCEPT !.phase = 2]}
               /\ UNCHANGED <<importError, isLoading>>
          ELSE /\ importError' = ImportResult[p.data].error
               /\ isLoading' = FALSE
               /\ pending' = pending \ {p}
               /\ UNCHANGED importedCgpa
  /\ UNCHANGED <<manualCourses, manualCgpa, currentCourse, clock, importSuccess, started,
                 lastData, pageRest>>

\* The answer fetched by decodeImportedData arrives: importSuccess is set
\* whether it decodes or not, and the finally block ends the loading.
SecondResponse ==
  /\ \E p \in pending :
       /\ p.phase = 2
       /\ pending' = pending \ {p}
  /\ importSuccess' = TRUE
  /\ isLoading' = FALSE
  /\ UNCHANGED <<manualCourses, manualCgpa, currentCourse, clock, importError, importedCgpa,
                 started, lastData, pageRest>>

ImportNext ==
  \/ ClickImport
  \/ UrlImport
  \/ FirstResponse
  \/ SecondResponse

SpecImport == ManualInit /\ [][ImportNext]_vars

\* C30 (as stated): importSuccess and importError are never set together,
\* and once no import is pending nothing loads and the imported CGPA shown
\* is the one answered for the import started last.
C30_AsStated ==
  /\ ~(importSuccess /\ importError # "null")
  /\ pending = {} /\ started > 0 =>
       /\ ~isLoading
       /\ ImportResult[lastData].status = 200 =>
            importedCgpa = Cgpa(Quot(ImportResult[lastData].cgpa, 100))

====
